---------------------------- MODULE Spec2Model ----------------------------
(***************************************************************************)
(* A model of poi-oracle: the POI classifier and city table                *)
(* (src/utils/poiClassifier.ts), the query interpreter                     *)
(* (src/unnamed/part_001, utils/llmIntegration) and the analysis           *)
(* orchestrator (src/unnamed/part_002, utils/aiReasoning).                 *)
(*                                                                         *)
(* Text is a sequence of one-character strings, so that toLowerCase,       *)
(* includes, startsWith, slice and trim are computed and not assumed.  The *)
(* backquote character, which the lexer does not admit inside a string, is *)
(* written "bq".  Real numbers are fixed-point integers in units of        *)
(* 1/Scale: 0.35 is 3500.  The sums the code forms (multiples of 0.35 and  *)
(* 0.15, compared with 0.3 and 0.95) are far enough apart, or formed by    *)
(* the same additions in the same order, for the comparisons of the        *)
(* floating-point values and of the fixed-point values to agree.           *)
(***************************************************************************)
EXTENDS Integers, Sequences, FiniteSets, TLC

VARIABLES
    pc,             \* where the modelled call stands
    name,           \* classifyPOI: its name argument
    context,        \* classifyPOI: its context argument, or undefined
    bestMatch,      \* classifyPOI: the value it returned
    location,       \* getCityCoordinates: its argument
    coordinates,    \* getCityCoordinates: the value it returned
    USE_LLM,        \* process.env.NEXT_PUBLIC_USE_LLM === 'true'
    LLM_PROVIDER,   \* process.env.NEXT_PUBLIC_LLM_PROVIDER || 'ollama'
    query,          \* analyzeSpatialQuery, analyzeQuery: the query
    llmAnalysis,    \* the value analyzeSpatialQuery resolved to
    outbound,       \* outbound network requests issued by the call
    chatCompletion, \* what the awaited chat-completion request came to
    earlier,        \* the call before this one: its query and its value
    queryType,      \* analyzeQuery: its queryType argument, or undefined
    result,         \* analyzeQuery: how its promise settled
    request,        \* an HTTP handler's req: the route, method and body
    response,       \* an HTTP handler's res: the status and JSON body sent
    page,           \* Home: the values of its useState hooks
    inFlight,       \* Home: the fetches of /api/analyze that have not settled
    statusFetch,    \* Home: what the fetch of /api/status came to
    history         \* Home: what the user has done so far

classifierVars == <<name, context, bestMatch>>
gazetteerVars == <<location, coordinates>>
configVars == <<USE_LLM, LLM_PROVIDER>>
interpreterVars == <<query, llmAnalysis, outbound, chatCompletion, earlier>>
orchestratorVars == <<queryType, result>>
handlerVars == <<request, response>>
pageVars == <<page, inFlight, statusFetch, history>>
vars == <<pc, classifierVars, gazetteerVars, configVars, interpreterVars,
          orchestratorVars, handlerVars, pageVars>>

----------------------------------------------------------------------------
(* Numbers *)

Scale == 100 * 100

Min(a, b) == IF a < b THEN a ELSE b
Max(a, b) == IF a > b THEN a ELSE b

----------------------------------------------------------------------------
(* Strings *)

\* An absent optional argument; no text equals it, a text being made of
\* one-character strings.
undefined == <<"undefined">>

UpperCaseLetters == <<"A","B","C","D","E","F","G","H","I","J","K","L","M",
                      "N","O","P","Q","R","S","T","U","V","W","X","Y","Z">>
LowerCaseLetters == <<"a","b","c","d","e","f","g","h","i","j","k","l","m",
                      "n","o","p","q","r","s","t","u","v","w","x","y","z">>

\* The image of character c under the letter mapping from -> to.
MapLetter(c, from, to) ==
    IF \E i \in 1..Len(from) : from[i] = c
    THEN to[CHOOSE i \in 1..Len(from) : from[i] = c]
    ELSE c

RECURSIVE MapLetters(_, _, _)
MapLetters(s, from, to) ==
    IF s = << >> THEN << >>
    ELSE <<MapLetter(Head(s), from, to)>> \o MapLetters(Tail(s), from, to)

\* String.prototype.toLowerCase
toLowerCase(s) == MapLetters(s, UpperCaseLetters, LowerCaseLetters)

\* String.prototype.toUpperCase
toUpperCase(s) == MapLetters(s, LowerCaseLetters, UpperCaseLetters)

\* String.prototype.includes: k occurs in s as a contiguous substring.
includes(s, k) ==
    \E i \in 1..(Len(s) - Len(k) + 1) : \A j \in 1..Len(k) : s[i + j - 1] = k[j]

\* A JavaScript string is falsy exactly when it is empty (or absent).
Truthy(s) == s /= undefined /\ s /= << >>

----------------------------------------------------------------------------
(* POI taxonomy: src/utils/poiClassifier.ts, POI_CATEGORIES *)

POI_CATEGORIES == <<
  [id |-> "food_beverage",
   \* restaurant cafe dhaba chai food biryani dosa coffee bakery
   keywords |-> << <<"r","e","s","t","a","u","r","a","n","t">>, <<"c","a","f","e">>, <<"d","h","a","b","a">>, <<"c","h","a","i">>, <<"f","o","o","d">>,
                   <<"b","i","r","y","a","n","i">>, <<"d","o","s","a">>, <<"c","o","f","f","e","e">>, <<"b","a","k","e","r","y">> >>,
   contextualRules |-> << <<"N","e","a","r"," ","r","e","s","i","d","e","n","t","i","a","l"," ","a","r","e","a","s">>, <<"H","i","g","h"," ","f","o","o","t"," ","t","r","a","f","f","i","c"," ","z","o","n","e","s">>,
                          <<"C","o","m","m","e","r","c","i","a","l"," ","s","t","r","e","e","t","s">> >>],
  [id |-> "retail",
   \* shop store market mall kirana bazaar supermarket grocery
   keywords |-> << <<"s","h","o","p">>, <<"s","t","o","r","e">>, <<"m","a","r","k","e","t">>, <<"m","a","l","l">>, <<"k","i","r","a","n","a">>,
                   <<"b","a","z","a","a","r">>, <<"s","u","p","e","r","m","a","r","k","e","t">>, <<"g","r","o","c","e","r","y">> >>,
   contextualRules |-> << <<"C","o","m","m","e","r","c","i","a","l"," ","z","o","n","e","s">>, <<"M","a","r","k","e","t"," ","d","i","s","t","r","i","c","t","s">>,
                          <<"R","e","s","i","d","e","n","t","i","a","l"," ","p","e","r","i","p","h","e","r","y">> >>],
  [id |-> "healthcare",
   \* hospital clinic pharmacy medical doctor diagnostic chemist health
   keywords |-> << <<"h","o","s","p","i","t","a","l">>, <<"c","l","i","n","i","c">>, <<"p","h","a","r","m","a","c","y">>, <<"m","e","d","i","c","a","l">>, <<"d","o","c","t","o","r">>,
                   <<"d","i","a","g","n","o","s","t","i","c">>, <<"c","h","e","m","i","s","t">>, <<"h","e","a","l","t","h">> >>,
   contextualRules |-> << <<"A","c","c","e","s","s","i","b","l","e"," ","l","o","c","a","t","i","o","n","s">>, <<"N","e","a","r"," ","r","e","s","i","d","e","n","t","i","a","l"," ","a","r","e","a","s">>,
                          <<"M","a","i","n"," ","r","o","a","d","s">> >>],
  [id |-> "education",
   \* school college university coaching tuition library academy institute
   keywords |-> << <<"s","c","h","o","o","l">>, <<"c","o","l","l","e","g","e">>, <<"u","n","i","v","e","r","s","i","t","y">>, <<"c","o","a","c","h","i","n","g">>, <<"t","u","i","t","i","o","n">>,
                   <<"l","i","b","r","a","r","y">>, <<"a","c","a","d","e","m","y">>, <<"i","n","s","t","i","t","u","t","e">> >>,
   contextualRules |-> << <<"R","e","s","i","d","e","n","t","i","a","l"," ","n","e","i","g","h","b","o","r","h","o","o","d","s">>, <<"S","a","f","e"," ","z","o","n","e","s">>,
                          <<"A","w","a","y"," ","f","r","o","m"," ","i","n","d","u","s","t","r","i","a","l"," ","a","r","e","a","s">> >>],
  [id |-> "finance",
   \* bank atm insurance finance "money transfer" loan credit
   keywords |-> << <<"b","a","n","k">>, <<"a","t","m">>, <<"i","n","s","u","r","a","n","c","e">>, <<"f","i","n","a","n","c","e">>, <<"m","o","n","e","y"," ","t","r","a","n","s","f","e","r">>,
                   <<"l","o","a","n">>, <<"c","r","e","d","i","t">> >>,
   contextualRules |-> << <<"C","o","m","m","e","r","c","i","a","l"," ","a","r","e","a","s">>, <<"H","i","g","h"," ","s","e","c","u","r","i","t","y"," ","z","o","n","e","s">>,
                          <<"M","a","i","n"," ","m","a","r","k","e","t","s">> >>],
  [id |-> "transportation",
   \* bus metro auto taxi parking station stand terminal
   keywords |-> << <<"b","u","s">>, <<"m","e","t","r","o">>, <<"a","u","t","o">>, <<"t","a","x","i">>, <<"p","a","r","k","i","n","g">>,
                   <<"s","t","a","t","i","o","n">>, <<"s","t","a","n","d">>, <<"t","e","r","m","i","n","a","l">> >>,
   contextualRules |-> << <<"T","r","a","n","s","i","t"," ","h","u","b","s">>, <<"M","a","j","o","r"," ","r","o","a","d","s">>, <<"J","u","n","c","t","i","o","n"," ","p","o","i","n","t","s">> >>],
  [id |-> "worship",
   \* temple mosque church gurudwara mandir masjid prayer
   keywords |-> << <<"t","e","m","p","l","e">>, <<"m","o","s","q","u","e">>, <<"c","h","u","r","c","h">>, <<"g","u","r","u","d","w","a","r","a">>, <<"m","a","n","d","i","r">>,
                   <<"m","a","s","j","i","d">>, <<"p","r","a","y","e","r">> >>,
   contextualRules |-> << <<"C","o","m","m","u","n","i","t","y"," ","c","e","n","t","e","r","s">>, <<"P","e","a","c","e","f","u","l"," ","a","r","e","a","s">>,
                          <<"H","e","r","i","t","a","g","e"," ","z","o","n","e","s">> >>],
  [id |-> "entertainment",
   \* cinema theater gaming entertainment multiplex park playground
   keywords |-> << <<"c","i","n","e","m","a">>, <<"t","h","e","a","t","e","r">>, <<"g","a","m","i","n","g">>, <<"e","n","t","e","r","t","a","i","n","m","e","n","t">>,
                   <<"m","u","l","t","i","p","l","e","x">>, <<"p","a","r","k">>, <<"p","l","a","y","g","r","o","u","n","d">> >>,
   contextualRules |-> << <<"C","o","m","m","e","r","c","i","a","l"," ","z","o","n","e","s">>, <<"U","r","b","a","n"," ","c","e","n","t","e","r","s">>, <<"F","a","m","i","l","y"," ","a","r","e","a","s">> >>],
  [id |-> "government",
   \* government office "post office" municipal civic panchayat tehsil
   keywords |-> << <<"g","o","v","e","r","n","m","e","n","t">>, <<"o","f","f","i","c","e">>, <<"p","o","s","t"," ","o","f","f","i","c","e">>, <<"m","u","n","i","c","i","p","a","l">>,
                   <<"c","i","v","i","c">>, <<"p","a","n","c","h","a","y","a","t">>, <<"t","e","h","s","i","l">> >>,
   contextualRules |-> << <<"A","d","m","i","n","i","s","t","r","a","t","i","v","e"," ","z","o","n","e","s">>, <<"A","c","c","e","s","s","i","b","l","e"," ","l","o","c","a","t","i","o","n","s">>,
                          <<"C","i","t","y"," ","c","e","n","t","e","r","s">> >>],
  [id |-> "technology",
   \* "IT park" "tech park" office coworking startup software technology
   keywords |-> << <<"I","T"," ","p","a","r","k">>, <<"t","e","c","h"," ","p","a","r","k">>, <<"o","f","f","i","c","e">>, <<"c","o","w","o","r","k","i","n","g">>,
                   <<"s","t","a","r","t","u","p">>, <<"s","o","f","t","w","a","r","e">>, <<"t","e","c","h","n","o","l","o","g","y">> >>,
   contextualRules |-> << <<"B","u","s","i","n","e","s","s"," ","d","i","s","t","r","i","c","t","s">>, <<"M","o","d","e","r","n"," ","i","n","f","r","a","s","t","r","u","c","t","u","r","e">>,
                          <<"M","e","t","r","o"," ","c","o","n","n","e","c","t","i","v","i","t","y">> >>],
  [id |-> "hospitality",
   \* hotel lodge "guest house" resort inn motel hostel
   keywords |-> << <<"h","o","t","e","l">>, <<"l","o","d","g","e">>, <<"g","u","e","s","t"," ","h","o","u","s","e">>, <<"r","e","s","o","r","t">>, <<"i","n","n">>,
                   <<"m","o","t","e","l">>, <<"h","o","s","t","e","l">> >>,
   contextualRules |-> << <<"T","o","u","r","i","s","t"," ","a","r","e","a","s">>, <<"B","u","s","i","n","e","s","s"," ","d","i","s","t","r","i","c","t","s">>,
                          <<"T","r","a","n","s","p","o","r","t"," ","h","u","b","s">> >>],
  [id |-> "automotive",
   \* petrol diesel fuel "service center" showroom workshop garage
   keywords |-> << <<"p","e","t","r","o","l">>, <<"d","i","e","s","e","l">>, <<"f","u","e","l">>, <<"s","e","r","v","i","c","e"," ","c","e","n","t","e","r">>,
                   <<"s","h","o","w","r","o","o","m">>, <<"w","o","r","k","s","h","o","p">>, <<"g","a","r","a","g","e">> >>,
   contextualRules |-> << <<"M","a","i","n"," ","r","o","a","d","s">>, <<"H","i","g","h","w","a","y"," ","j","u","n","c","t","i","o","n","s">>,
                          <<"I","n","d","u","s","t","r","i","a","l"," ","a","r","e","a","s">> >>],
  [id |-> "fitness",
   \* gym fitness yoga spa salon wellness "health club"
   keywords |-> << <<"g","y","m">>, <<"f","i","t","n","e","s","s">>, <<"y","o","g","a">>, <<"s","p","a">>, <<"s","a","l","o","n">>,
                   <<"w","e","l","l","n","e","s","s">>, <<"h","e","a","l","t","h"," ","c","l","u","b">> >>,
   contextualRules |-> << <<"R","e","s","i","d","e","n","t","i","a","l"," ","a","r","e","a","s">>, <<"C","o","m","m","e","r","c","i","a","l"," ","z","o","n","e","s">>,
                          <<"I","T"," ","p","a","r","k"," ","v","i","c","i","n","i","t","y">> >>],
  [id |-> "industrial",
   \* factory warehouse industrial manufacturing godown plant
   keywords |-> << <<"f","a","c","t","o","r","y">>, <<"w","a","r","e","h","o","u","s","e">>, <<"i","n","d","u","s","t","r","i","a","l">>, <<"m","a","n","u","f","a","c","t","u","r","i","n","g">>,
                   <<"g","o","d","o","w","n">>, <<"p","l","a","n","t">> >>,
   contextualRules |-> << <<"I","n","d","u","s","t","r","i","a","l"," ","z","o","n","e","s">>, <<"C","i","t","y"," ","o","u","t","s","k","i","r","t","s">>,
                          <<"L","o","g","i","s","t","i","c","s"," ","h","u","b","s">> >>],
  [id |-> "residential",
   \* apartment villa society colony township residential
   keywords |-> << <<"a","p","a","r","t","m","e","n","t">>, <<"v","i","l","l","a">>, <<"s","o","c","i","e","t","y">>, <<"c","o","l","o","n","y">>, <<"t","o","w","n","s","h","i","p">>,
                   <<"r","e","s","i","d","e","n","t","i","a","l">> >>,
   contextualRules |-> << <<"P","l","a","n","n","e","d"," ","l","a","y","o","u","t","s">>, <<"S","c","h","o","o","l"," ","p","r","o","x","i","m","i","t","y">>,
                          <<"G","r","e","e","n"," ","z","o","n","e","s">> >>]
>>

CategoryIds == {POI_CATEGORIES[i].id : i \in 1..Len(POI_CATEGORIES)}

----------------------------------------------------------------------------
(* classifyPOI: src/utils/poiClassifier.ts *)

KeywordWeight == 3500       \* score += 0.35
RuleWeightHeavy == 2 * (Scale \div 10)
RuleWeight == 1500          \* score += 0.15
ConfidenceCap == 9500       \* Math.min(score, 0.95)
\* A classifier whose bestMatch starts at confidence 0.
DefaultConfidenceZero == 0 * Scale
DefaultConfidence == 3000   \* bestMatch = { category: "unknown", confidence: 0.3 }

\* for (const keyword of category.keywords) if (nameLower.includes(keyword)) ...
\* The keyword is compared as declared: it is not lower-cased.
keywordMatches(category, nameLower) ==
    Cardinality({i \in 1..Len(category.keywords) :
                     includes(nameLower, category.keywords[i])})

\* if (context) for (const rule of category.contextualRules)
\*     if (contextLower.includes(rule.toLowerCase())) ...
ruleMatches(category, ctx, contextLower) ==
    IF Truthy(ctx)
    THEN Cardinality({i \in 1..Len(category.contextualRules) :
             includes(contextLower, toLowerCase(category.contextualRules[i]))})
    ELSE 0

\* The score of one category, as the loop body accumulates it.
score(category, nameLower, ctx, contextLower) ==
    KeywordWeight * keywordMatches(category, nameLower)
        + RuleWeight * ruleMatches(category, ctx, contextLower)

\* A classifier that does not cap the score.
uncappedConfidence(s) == s

\* const confidence = Math.min(score, 0.95)
cappedConfidence(s) == Min(s, ConfidenceCap)

\* A classifier that replaces bestMatch on an equal confidence too.
betterMatchOrEqual(confidence, best) == confidence >= best.confidence

\* if (confidence > bestMatch.confidence) bestMatch = {category.id, confidence}
betterMatch(confidence, best) == confidence > best.confidence

\* bestMatch after the loop has visited the first n categories.
RECURSIVE bestMatchAfter(_, _, _, _)
bestMatchAfter(n, nameLower, ctx, contextLower) ==
    IF n = 0
    THEN [category |-> "unknown", confidence |-> DefaultConfidence]
    ELSE LET best == bestMatchAfter(n - 1, nameLower, ctx, contextLower)
             category == POI_CATEGORIES[n]
             confidence ==
                 cappedConfidence(score(category, nameLower, ctx, contextLower))
         IN  IF betterMatch(confidence, best)
             THEN [category |-> category.id, confidence |-> confidence]
             ELSE best

classifyPOI(nm, ctx) ==
    LET nameLower == toLowerCase(nm)
        \* context?.toLowerCase() || ""
        contextLower == IF ctx = undefined THEN << >> ELSE toLowerCase(ctx)
    IN  bestMatchAfter(Len(POI_CATEGORIES), nameLower, ctx, contextLower)

----------------------------------------------------------------------------
(* City table and getCityCoordinates: src/utils/poiClassifier.ts,          *)
(* src/unnamed/part_002                                                    *)

\* A coordinate pair [lat, lng], in units of 1/Scale degree.
Coords(lat, lng) == [kind |-> "coords", lat |-> lat, lng |-> lng]

\* The own properties of the object literal CITY_COORDINATES, in order.
CITY_COORDINATES == <<
    [key |-> <<"b","a","n","g","a","l","o","r","e">>,  value |-> Coords(129716, 775946)],
    [key |-> <<"b","e","n","g","a","l","u","r","u">>,  value |-> Coords(129716, 775946)],
    [key |-> <<"d","e","l","h","i">>,      value |-> Coords(286139, 772090)],
    [key |-> <<"m","u","m","b","a","i">>,     value |-> Coords(190760, 728777)],
    [key |-> <<"n","a","i","r","o","b","i">>,    value |-> Coords(-12921, 368219)],
    [key |-> <<"h","y","d","e","r","a","b","a","d">>,  value |-> Coords(173850, 784867)],
    [key |-> <<"k","e","n","y","a">>,      value |-> Coords(-12921, 368219)],
    [key |-> <<"c","h","e","n","n","a","i">>,    value |-> Coords(130827, 802707)],
    [key |-> <<"p","u","n","e">>,       value |-> Coords(185204, 738567)],
    [key |-> <<"k","o","l","k","a","t","a">>,    value |-> Coords(225726, 883639)],
    [key |-> <<"a","h","m","e","d","a","b","a","d">>,  value |-> Coords(230225, 725714)],
    [key |-> <<"j","a","i","p","u","r">>,     value |-> Coords(269124, 758773)],
    [key |-> <<"l","u","c","k","n","o","w">>,    value |-> Coords(268467, 809462)],
    [key |-> <<"k","o","c","h","i">>,      value |-> Coords(99312, 762673)],
    [key |-> <<"c","h","a","n","d","i","g","a","r","h">>, value |-> Coords(307333, 767794)]
>>

\* The properties every object literal inherits from Object.prototype.  An
\* index expression obj[key] finds them when obj has no own property key;
\* each is a function, or for __proto__ the prototype object: truthy, and
\* with no element 0 or 1.
ObjectPrototypeKeys ==
    { <<"c","o","n","s","t","r","u","c","t","o","r">>, <<"h","a","s","O","w","n","P","r","o","p","e","r","t","y">>, <<"i","s","P","r","o","t","o","t","y","p","e","O","f">>,
      <<"p","r","o","p","e","r","t","y","I","s","E","n","u","m","e","r","a","b","l","e">>, <<"t","o","L","o","c","a","l","e","S","t","r","i","n","g">>, <<"t","o","S","t","r","i","n","g">>, <<"v","a","l","u","e","O","f">>,
      <<"_","_","d","e","f","i","n","e","G","e","t","t","e","r","_","_">>, <<"_","_","d","e","f","i","n","e","S","e","t","t","e","r","_","_">>, <<"_","_","l","o","o","k","u","p","G","e","t","t","e","r","_","_">>,
      <<"_","_","l","o","o","k","u","p","S","e","t","t","e","r","_","_">>, <<"_","_","p","r","o","t","o","_","_">> }

Inherited(key) == [kind |-> "inherited", property |-> key]
NoProperty == [kind |-> "undefined"]

\* obj[key] for an object literal with the own properties entries.
GetProperty(entries, key) ==
    IF \E i \in 1..Len(entries) : entries[i].key = key
    THEN entries[CHOOSE i \in 1..Len(entries) : entries[i].key = key].value
    ELSE IF key \in ObjectPrototypeKeys THEN Inherited(key)
    ELSE NoProperty

\* The characters the regular expression class \s matches, among those the
\* inputs are made of.
Whitespace == {" ", "\t", "\n", "\r"}
IsNotWhitespace(c) == c \notin Whitespace

\* s.replace(/\s+/g, '')
removeWhitespace(s) == SelectSeq(s, IsNotWhitespace)

\* location.toLowerCase().replace(/\s+/g, '')
normalized(loc) == removeWhitespace(toLowerCase(loc))

\* return CITY_COORDINATES[normalized] || CITY_COORDINATES.bangalore
getCityCoordinates(loc) ==
    LET found == GetProperty(CITY_COORDINATES, normalized(loc))
    IN  IF found.kind /= "undefined" THEN found
        ELSE GetProperty(CITY_COORDINATES, <<"b","a","n","g","a","l","o","r","e">>)

----------------------------------------------------------------------------
(* Values: what a parsed JSON text, and so an LLMQueryAnalysis at run time, *)
(* can be                                                                  *)

Str(text) == [t |-> "string", v |-> text]
Arr(elements) == [t |-> "array", v |-> elements]
Num(n) == [t |-> "number", v |-> n]
Null == [t |-> "null"]
Undefined == [t |-> "undefined"]

\* An object with the five properties the orchestrator reads; a property the
\* object lacks is Undefined.
Obj(loc, businessType, contextualFactors, marketInsights, keyAssumptions) ==
    [t |-> "object", location |-> loc, businessType |-> businessType,
     contextualFactors |-> contextualFactors, marketInsights |-> marketInsights,
     keyAssumptions |-> keyAssumptions]

RECURSIVE StrAll(_)
StrAll(texts) ==
    IF texts = << >> THEN << >> ELSE <<Str(Head(texts))>> \o StrAll(Tail(texts))

\* Array.prototype.join for an array of texts.
RECURSIVE join(_, _)
join(texts, sep) ==
    IF texts = << >> THEN << >>
    ELSE IF Len(texts) = 1 THEN texts[1]
    ELSE texts[1] \o sep \o join(Tail(texts), sep)

\* Array.prototype.includes for an array of texts.
includesElement(texts, text) == \E i \in 1..Len(texts) : texts[i] = text

----------------------------------------------------------------------------
(* simulateAnalysis: src/unnamed/part_001 *)

cities == << <<"b","a","n","g","a","l","o","r","e">>, <<"b","e","n","g","a","l","u","r","u">>, <<"d","e","l","h","i">>, <<"m","u","m","b","a","i">>, <<"n","a","i","r","o","b","i">>,
             <<"h","y","d","e","r","a","b","a","d">>, <<"k","e","n","y","a">>, <<"c","h","e","n","n","a","i">>, <<"p","u","n","e">>, <<"k","o","l","k","a","t","a">>,
             <<"a","h","m","e","d","a","b","a","d">>, <<"j","a","i","p","u","r">> >>

\* Object.entries(businessTypes): the keys are not integer-like, so the
\* entries come in the order the literal declares them.
businessTypes == <<
    <<<<"c","h","a","i">>, <<"C","h","a","i"," ","S","t","a","l","l">>>>,
    <<<<"t","e","a">>, <<"T","e","a"," ","S","h","o","p">>>>,
    <<<<"c","o","f","f","e","e">>, <<"C","o","f","f","e","e"," ","S","h","o","p">>>>,
    <<<<"p","h","a","r","m","a","c","y">>, <<"P","h","a","r","m","a","c","y">>>>,
    <<<<"m","e","d","i","c","a","l">>, <<"M","e","d","i","c","a","l"," ","S","t","o","r","e">>>>,
    <<<<"r","e","s","t","a","u","r","a","n","t">>, <<"R","e","s","t","a","u","r","a","n","t">>>>,
    <<<<"f","o","o","d">>, <<"F","o","o","d"," ","O","u","t","l","e","t">>>>,
    <<<<"g","y","m">>, <<"F","i","t","n","e","s","s"," ","C","e","n","t","e","r">>>>,
    <<<<"s","c","h","o","o","l">>, <<"E","d","u","c","a","t","i","o","n","a","l"," ","I","n","s","t","i","t","u","t","i","o","n">>>>,
    <<<<"b","a","n","k">>, <<"B","a","n","k","i","n","g"," ","S","e","r","v","i","c","e","s">>>>,
    <<<<"a","t","m">>, <<"A","T","M">>>>,
    <<<<"s","a","l","o","n">>, <<"B","e","a","u","t","y"," ","S","a","l","o","n">>>>,
    <<<<"s","p","a">>, <<"W","e","l","l","n","e","s","s"," ","S","p","a">>>>,
    <<<<"g","r","o","c","e","r","y">>, <<"G","r","o","c","e","r","y"," ","S","t","o","r","e">>>>,
    <<<<"s","u","p","e","r","m","a","r","k","e","t">>, <<"S","u","p","e","r","m","a","r","k","e","t">>>> >>

\* s.charAt(0).toUpperCase() + s.slice(1)
capitalize(s) == IF s = << >> THEN s ELSE toUpperCase(<<Head(s)>>) \o Tail(s)

\* A city scan that has lost its break: the last city that occurs wins.
RECURSIVE extractLastLocation(_, _)
extractLastLocation(queryLower, n) ==
    IF n = 0 THEN <<"B","a","n","g","a","l","o","r","e">>
    ELSE IF includes(queryLower, cities[n]) THEN capitalize(cities[n])
    ELSE extractLastLocation(queryLower, n - 1)

\* for (const city of cities) if (queryLower.includes(city)) { ...; break }
\* scanned from entry i on.
RECURSIVE extractLocationFrom(_, _)
extractLocationFrom(queryLower, i) ==
    IF i > Len(cities) THEN <<"B","a","n","g","a","l","o","r","e">>
    ELSE IF includes(queryLower, cities[i]) THEN capitalize(cities[i])
    ELSE extractLocationFrom(queryLower, i + 1)

\* The scan without its break, from the first entry.
extractLocationLast(queryLower) == extractLastLocation(queryLower, Len(cities))

extractLocation(queryLower) == extractLocationFrom(queryLower, 1)

\* for (const [keyword, type] of Object.entries(businessTypes)) ... break
RECURSIVE extractBusinessTypeFrom(_, _)
extractBusinessTypeFrom(queryLower, i) ==
    IF i > Len(businessTypes) THEN <<"B","u","s","i","n","e","s","s">>
    ELSE IF includes(queryLower, businessTypes[i][1]) THEN businessTypes[i][2]
    ELSE extractBusinessTypeFrom(queryLower, i + 1)

extractBusinessType(queryLower) == extractBusinessTypeFrom(queryLower, 1)

\* An extraction without the two generic tags.
extractContextualFactorsOnly(queryLower) ==
    (IF includes(queryLower, <<"i","t"," ","p","a","r","k">>) \/ includes(queryLower, <<"t","e","c","h"," ","p","a","r","k">>)
     THEN << <<"P","r","o","x","i","m","i","t","y"," ","t","o"," ","I","T","/","T","e","c","h"," ","P","a","r","k","s">> >> ELSE << >>)
 \o (IF includes(queryLower, <<"r","e","s","i","d","e","n","t","i","a","l">>)
     THEN << <<"R","e","s","i","d","e","n","t","i","a","l"," ","A","r","e","a"," ","F","o","c","u","s">> >> ELSE << >>)
 \o (IF includes(queryLower, <<"u","n","d","e","r","s","e","r","v","e","d">>) \/ includes(queryLower, <<"g","a","p">>)
     THEN << <<"M","a","r","k","e","t"," ","G","a","p"," ","A","n","a","l","y","s","i","s"," ","R","e","q","u","i","r","e","d">> >> ELSE << >>)
 \o (IF includes(queryLower, <<"c","o","m","m","e","r","c","i","a","l">>)
     THEN << <<"C","o","m","m","e","r","c","i","a","l"," ","Z","o","n","e"," ","P","r","i","o","r","i","t","y">> >> ELSE << >>)
 \o (IF includes(queryLower, <<"m","e","t","r","o">>) \/ includes(queryLower, <<"t","r","a","n","s","i","t">>)
     THEN << <<"M","e","t","r","o","/","T","r","a","n","s","i","t"," ","A","c","c","e","s","s","i","b","i","l","i","t","y">> >> ELSE << >>)

\* if (queryLower.includes(...)) contextualFactors.push(...), five times, and
\* the two generic tags if (contextualFactors.length === 0)
extractContextualFactors(queryLower) ==
    LET factors ==
            (IF includes(queryLower, <<"i","t"," ","p","a","r","k">>) \/ includes(queryLower, <<"t","e","c","h"," ","p","a","r","k">>)
             THEN << <<"P","r","o","x","i","m","i","t","y"," ","t","o"," ","I","T","/","T","e","c","h"," ","P","a","r","k","s">> >> ELSE << >>)
         \o (IF includes(queryLower, <<"r","e","s","i","d","e","n","t","i","a","l">>)
             THEN << <<"R","e","s","i","d","e","n","t","i","a","l"," ","A","r","e","a"," ","F","o","c","u","s">> >> ELSE << >>)
         \o (IF includes(queryLower, <<"u","n","d","e","r","s","e","r","v","e","d">>) \/ includes(queryLower, <<"g","a","p">>)
             THEN << <<"M","a","r","k","e","t"," ","G","a","p"," ","A","n","a","l","y","s","i","s"," ","R","e","q","u","i","r","e","d">> >> ELSE << >>)
         \o (IF includes(queryLower, <<"c","o","m","m","e","r","c","i","a","l">>)
             THEN << <<"C","o","m","m","e","r","c","i","a","l"," ","Z","o","n","e"," ","P","r","i","o","r","i","t","y">> >> ELSE << >>)
         \o (IF includes(queryLower, <<"m","e","t","r","o">>) \/ includes(queryLower, <<"t","r","a","n","s","i","t">>)
             THEN << <<"M","e","t","r","o","/","T","r","a","n","s","i","t"," ","A","c","c","e","s","s","i","b","i","l","i","t","y">> >> ELSE << >>)
    IN  IF Len(factors) = 0
        THEN << <<"G","e","n","e","r","a","l"," ","C","o","m","m","e","r","c","i","a","l"," ","V","i","a","b","i","l","i","t","y">>, <<"F","o","o","t"," ","T","r","a","f","f","i","c"," ","P","o","t","e","n","t","i","a","l">> >>
        ELSE factors

marketInsightsText(businessType, loc, contextualFactors) ==
    <<"A","n","a","l","y","z","i","n","g"," ","o","p","t","i","m","a","l"," ","l","o","c","a","t","i","o","n","s"," ","f","o","r"," ">> \o businessType \o <<" ","i","n"," ">> \o loc \o <<"."," ">>
    \o (IF Len(contextualFactors) > 0
        THEN <<"K","e","y"," ","c","o","n","s","i","d","e","r","a","t","i","o","n","s"," ","i","n","c","l","u","d","e"," ">>
             \o toLowerCase(join(SubSeq(contextualFactors, 1,
                                        Min(2, Len(contextualFactors))), <<" ","a","n","d"," ">>))
             \o <<"."," ">>
        ELSE << >>)
    \o <<"T","h","e"," ","a","n","a","l","y","s","i","s"," ","w","i","l","l"," ","i","d","e","n","t","i","f","y"," ","h","i","g","h","-","f","o","o","t","f","a","l","l"," ","a","r","e","a","s"," ","w","i","t","h"," ","g","o","o","d"," ","a","c","c","e","s","s","i","b","i","l","i","t","y",","," ","v","i","s","i","b","i","l","i","t","y",","," ","a","n","d"," ","d","e","m","o","g","r","a","p","h","i","c"," ","a","l","i","g","n","m","e","n","t"," ","f","o","r"," ","y","o","u","r"," ","t","a","r","g","e","t"," ","c","u","s","t","o","m","e","r"," ","b","a","s","e",".">>

keyAssumptionTexts(businessType, contextualFactors) ==
    LET nearIT == includesElement(contextualFactors, <<"P","r","o","x","i","m","i","t","y"," ","t","o"," ","I","T","/","T","e","c","h"," ","P","a","r","k","s">>)
    IN  << <<"H","i","g","h"," ","d","e","m","a","n","d"," ","a","r","e","a","s"," ","a","r","e"," ","c","o","n","c","e","n","t","r","a","t","e","d"," ","n","e","a","r"," ","m","a","j","o","r"," ">>
               \o (IF nearIT THEN <<"I","T"," ","p","a","r","k","s"," ","a","n","d"," ","t","e","c","h"," ","c","o","r","r","i","d","o","r","s">>
                             ELSE <<"c","o","m","m","e","r","c","i","a","l"," ","z","o","n","e","s">>),
           businessType
               \o <<" ","p","e","r","f","o","r","m","s"," ","b","e","s","t"," ","i","n"," ","a","r","e","a","s"," ","w","i","t","h"," ","c","o","n","s","i","s","t","e","n","t"," ","d","a","i","l","y"," ","f","o","o","t"," ","t","r","a","f","f","i","c"," ","p","a","t","t","e","r","n","s">>,
           <<"P","e","a","k"," ","b","u","s","i","n","e","s","s"," ","h","o","u","r","s"," ","a","l","i","g","n"," ","w","i","t","h"," ">>
               \o (IF nearIT THEN <<"8","-","1","0"," ","A","M"," ","a","n","d"," ","6","-","8"," ","P","M"," ","(","I","T"," ","c","r","o","w","d",")">>
                             ELSE <<"s","t","a","n","d","a","r","d"," ","9"," ","A","M"," ","-"," ","6"," ","P","M"," ","w","o","r","k","i","n","g"," ","h","o","u","r","s">>),
           <<"C","o","m","p","e","t","i","t","i","o","n"," ","d","e","n","s","i","t","y"," ","i","n"," ","t","a","r","g","e","t"," ","a","r","e","a"," ","i","s"," ","m","o","d","e","r","a","t","e"," ","t","o"," ","h","i","g","h">> >>

simulateAnalysis(q) ==
    LET queryLower == toLowerCase(q)
        loc == extractLocation(queryLower)
        businessType == extractBusinessType(queryLower)
        contextualFactors == extractContextualFactors(queryLower)
    IN  Obj(Str(loc), Str(businessType), Arr(StrAll(contextualFactors)),
            Str(marketInsightsText(businessType, loc, contextualFactors)),
            Arr(StrAll(keyAssumptionTexts(businessType, contextualFactors))))

----------------------------------------------------------------------------
(* analyzeSpatialQuery: src/unnamed/part_001 *)

\* A guard that looks at the provider alone.
llmDisabledByProviderOnly == LLM_PROVIDER = "simulate"

\* if (!USE_LLM || LLM_PROVIDER === 'simulate')
llmDisabled == ~USE_LLM \/ LLM_PROVIDER = "simulate"

\* A getClient() that builds a client for every provider.
hasClientAlways == TRUE

\* getClient() returns a client for 'ollama' and 'openai', and null otherwise.
hasClient == LLM_PROVIDER \in {"ollama", "openai"}

\* String.prototype.trim, String.prototype.startsWith, endsWith, slice
RECURSIVE trimStart(_)
trimStart(s) ==
    IF s /= << >> /\ Head(s) \in Whitespace THEN trimStart(Tail(s)) ELSE s
RECURSIVE trimEnd(_)
trimEnd(s) ==
    IF s /= << >> /\ s[Len(s)] \in Whitespace
    THEN trimEnd(SubSeq(s, 1, Len(s) - 1)) ELSE s
trim(s) == trimEnd(trimStart(s))
startsWith(s, prefix) ==
    Len(s) >= Len(prefix) /\ SubSeq(s, 1, Len(prefix)) = prefix
endsWith(s, suffix) ==
    Len(s) >= Len(suffix) /\ SubSeq(s, Len(s) - Len(suffix) + 1, Len(s)) = suffix
sliceFrom(s, n) == SubSeq(s, n + 1, Len(s))
sliceDropLast(s, n) == SubSeq(s, 1, Len(s) - n)

\* The text handed to JSON.parse: the content trimmed, without a leading
\* ```json or ``` and a trailing ```, trimmed again.
stripFences(content) ==
    LET trimmed == trim(content)
        a == IF startsWith(trimmed, <<"bq","bq","bq","j","s","o","n">>) THEN sliceFrom(trimmed, 7) ELSE trimmed
        b == IF startsWith(a, <<"bq","bq","bq">>) THEN sliceFrom(a, 3) ELSE a
        c == IF endsWith(b, <<"bq","bq","bq">>) THEN sliceDropLast(b, 3) ELSE b
    IN  trim(c)

\* The JSON texts the modelled endpoint answers with, each with the value
\* JSON.parse gives for it; JSON.parse throws a SyntaxError for any other
\* text the endpoint sends.
JSON_TEXTS == <<
    [text |-> <<"{","\"","l","o","c","a","t","i","o","n","\"",":","\"","D","e","l","h","i","\"",",","\"","b","u","s","i","n","e","s","s","T","y","p","e","\"",":","\"","P","h","a","r","m","a","c","y","\"",",","\"","c","o","n","t","e","x","t","u","a","l","F","a","c","t","o","r","s","\"",":","[","\"","H","o","s","p","i","t","a","l"," ","c","l","u","s","t","e","r","\"",",","\"","R","e","s","i","d","e","n","t","i","a","l","\"","]",",","\"","m","a","r","k","e","t","I","n","s","i","g","h","t","s","\"",":","\"","S","t","e","a","d","y"," ","d","e","m","a","n","d",".","\"",",","\"","k","e","y","A","s","s","u","m","p","t","i","o","n","s","\"",":","[","\"","L","i","c","e","n","c","e","s"," ","a","r","e"," ","a","v","a","i","l","a","b","l","e","\"","]","}">>,
     value |-> Obj(Str(<<"D","e","l","h","i">>), Str(<<"P","h","a","r","m","a","c","y">>),
                   Arr(<<Str(<<"H","o","s","p","i","t","a","l"," ","c","l","u","s","t","e","r">>), Str(<<"R","e","s","i","d","e","n","t","i","a","l">>)>>),
                   Str(<<"S","t","e","a","d","y"," ","d","e","m","a","n","d",".">>), Arr(<<Str(<<"L","i","c","e","n","c","e","s"," ","a","r","e"," ","a","v","a","i","l","a","b","l","e">>)>>))],
    [text |-> <<"{","\"","l","o","c","a","t","i","o","n","\"",":","\"","A","t","l","a","n","t","i","s","\"",",","\"","b","u","s","i","n","e","s","s","T","y","p","e","\"",":","\"","C","a","f","e","\"",",","\"","c","o","n","t","e","x","t","u","a","l","F","a","c","t","o","r","s","\"",":","[","\"","N","e","a","r"," ","t","e","c","h"," ","c","a","m","p","u","s","\"","]",",","\"","m","a","r","k","e","t","I","n","s","i","g","h","t","s","\"",":","\"","\"",",","\"","k","e","y","A","s","s","u","m","p","t","i","o","n","s","\"",":","[","]","}">>,
     value |-> Obj(Str(<<"A","t","l","a","n","t","i","s">>), Str(<<"C","a","f","e">>), Arr(<<Str(<<"N","e","a","r"," ","t","e","c","h"," ","c","a","m","p","u","s">>)>>),
                   Str(<< >>), Arr(<< >>))],
    [text |-> <<"{","\"","l","o","c","a","t","i","o","n","\"",":","\"","c","o","n","s","t","r","u","c","t","o","r","\"",",","\"","c","o","n","t","e","x","t","u","a","l","F","a","c","t","o","r","s","\"",":","[","]","}">>,
     value |-> Obj(Str(<<"c","o","n","s","t","r","u","c","t","o","r">>), Undefined, Arr(<< >>), Undefined, Undefined)],
    [text |-> <<"{","\"","l","o","c","a","t","i","o","n","\"",":","\"","M","u","m","b","a","i","\"",",","\"","b","u","s","i","n","e","s","s","T","y","p","e","\"",":","7",",","\"","c","o","n","t","e","x","t","u","a","l","F","a","c","t","o","r","s","\"",":","[","7","]","}">>,
     value |-> Obj(Str(<<"M","u","m","b","a","i">>), Num(7), Arr(<<Num(7)>>), Undefined, Undefined)],
    [text |-> <<"{","\"","l","o","c","a","t","i","o","n","\"",":","\"","P","u","n","e","\"","}">>,
     value |-> Obj(Str(<<"P","u","n","e">>), Undefined, Undefined, Undefined, Undefined)],
    [text |-> <<"{","}">>,
     value |-> Obj(Undefined, Undefined, Undefined, Undefined, Undefined)],
    [text |-> <<"n","u","l","l">>, value |-> Null],
    [text |-> <<"4","2">>, value |-> Num(42)]
>>

\* JSON.parse(text): the value, or a SyntaxError.
JSONParse(text) ==
    IF \E i \in 1..Len(JSON_TEXTS) : JSON_TEXTS[i].text = text
    THEN [ok |-> TRUE,
          value |-> JSON_TEXTS[CHOOSE i \in 1..Len(JSON_TEXTS) :
                                   JSON_TEXTS[i].text = text].value]
    ELSE [ok |-> FALSE]

\* What the awaited client.chat.completions.create(...) can come to:
\* rejected (network error, timeout, HTTP error status), or a response whose
\* choices[0]?.message?.content is absent, null, or a text.
NotSettled == [settled |-> "pending"]
Rejected(why) == [settled |-> "rejected", error |-> why]
Responded(content) == [settled |-> "fulfilled", content |-> content]

\* A catch block that runs the heuristic on an empty query.
afterCompletionForgetsQuery(q, completion) ==
    IF completion.settled = "rejected" THEN simulateAnalysis(<< >>)
    ELSE IF completion.content.t /= "string" \/ completion.content.v = << >>
    THEN simulateAnalysis(<< >>)
    ELSE LET parsed == JSONParse(stripFences(completion.content.v))
         IN  IF parsed.ok THEN parsed.value ELSE simulateAnalysis(<< >>)

\* The body of the try block after the await, and the catch block.
afterCompletion(q, completion) ==
    IF completion.settled = "rejected" THEN simulateAnalysis(q)
    \* if (!content) throw new Error('No response from LLM')
    ELSE IF completion.content.t /= "string" \/ completion.content.v = << >>
    THEN simulateAnalysis(q)
    ELSE LET parsed == JSONParse(stripFences(completion.content.v))
         IN  IF parsed.ok THEN parsed.value ELSE simulateAnalysis(q)

----------------------------------------------------------------------------
(* Numbers of the orchestrator *)

\* The product of two fixed-point numbers.
Mul(a, b) == (a * b) \div Scale

\* Math.floor and Math.round of a fixed-point number, as integers.
MathFloor(x) == x \div Scale
MathRound(x) == (x + Scale \div 2) \div Scale

\* The number an arithmetic expression with an undefined operand gives.
NaN == 0 - Scale * Scale
Plus(a, b) == IF a = NaN \/ b = NaN THEN NaN ELSE a + b

MaxRandom == 3

\* The values Math.random() can return, within [0, 1): 0, the multiples of
\* 1/MaxRandom and the greatest value below 1.
RandomValues ==
    [j \in 1..(MaxRandom + 1) |->
        IF j <= MaxRandom THEN ((j - 1) * Scale) \div MaxRandom ELSE Scale - 1]

\* The sequences of values that successive calls of Math.random() return
\* during one analysis: call number k (from 0) returns the value at
\* position start + k * step of RandomValues, cyclically.
RandomStreams ==
    [start : 0..MaxRandom, step : 0..MaxRandom]

random(stream, k) ==
    RandomValues[((stream.start + k * stream.step) % (MaxRandom + 1)) + 1]

----------------------------------------------------------------------------
(* Template literals *)

Digits == << <<"0">>, <<"1">>, <<"2">>, <<"3">>, <<"4">>, <<"5">>, <<"6">>, <<"7">>, <<"8">>, <<"9">> >>

\* The decimal text of a natural number.
RECURSIVE numberText(_)
numberText(n) ==
    IF n < 10 THEN Digits[n + 1]
    ELSE numberText(n \div 10) \o Digits[(n % 10) + 1]

\* The text `${value}` of a value in a template literal.
RECURSIVE ToText(_)
ToText(value) ==
    CASE value.t = "string" -> value.v
      [] value.t = "number" -> numberText(value.v)
      [] value.t = "null" -> <<"n","u","l","l">>
      [] value.t = "undefined" -> <<"u","n","d","e","f","i","n","e","d">>
      [] value.t = "array" ->
            IF value.v = << >> THEN << >>
            ELSE IF Len(value.v) = 1 THEN ToText(value.v[1])
            ELSE ToText(value.v[1]) \o <<",">> \o ToText(Arr(Tail(value.v)))
      [] value.t = "object" -> <<"[","o","b","j","e","c","t"," ","O","b","j","e","c","t","]">>

----------------------------------------------------------------------------
(* analyzeQuery and its helpers: src/unnamed/part_002 *)

\* A call that returned value, and a call that threw.
Returns(value) == [threw |-> FALSE, value |-> value]
Throws == [threw |-> TRUE, error |-> "TypeError"]

\* const { location, ... } = llmAnalysis: property p of the analysis.
\* Destructuring null throws; a number has none of the properties.
destructure(analysis) ==
    IF analysis.t \in {"null", "undefined"} THEN Throws
    ELSE IF analysis.t = "object" THEN Returns(analysis)
    ELSE Returns(Obj(Undefined, Undefined, Undefined, Undefined, Undefined))

\* contextFactors.some(f => f.toLowerCase().includes(w1) || ... ), for the
\* words sought, over the elements from i on: "true", "false" or "throw"
\* (an element without toLowerCase, reached before a match).
RECURSIVE someIncludesFrom(_, _, _)
someIncludesFrom(elements, words, i) ==
    IF i > Len(elements) THEN "false"
    ELSE IF elements[i].t /= "string" THEN "throw"
    ELSE IF \E w \in words : includes(toLowerCase(elements[i].v), w) THEN "true"
    ELSE someIncludesFrom(elements, words, i + 1)

\* contextFactors.some(...): a value that is not an array has no some.
someIncludes(contextFactors, words) ==
    IF contextFactors.t /= "array" THEN "throw"
    ELSE someIncludesFrom(contextFactors.v, words, 1)

ITWords == { <<"i","t">>, <<"t","e","c","h">> }

\* getCityCoordinates(location) for a value: a value that is not a string
\* has no toLowerCase.
coordinatesOf(loc) ==
    IF loc.t /= "string" THEN Throws ELSE Returns(getCityCoordinates(loc.v))

\* coords[0] and coords[1]; an inherited property has neither.
latOf(coords) == IF coords.kind = "coords" THEN coords.lat ELSE NaN
lngOf(coords) == IF coords.kind = "coords" THEN coords.lng ELSE NaN

\* The own properties of the object literal locationNames.
locationNames(businessType) ==
    LET b == ToText(businessType)
    IN <<
    [key |-> <<"l","o","c","a","t","i","o","n">>, value |-> [kind |-> "names", names |-> <<
        <<"P","r","i","m","e"," ">> \o b \o <<" ","Z","o","n","e"," ","-"," ","H","i","g","h"," ","T","r","a","f","f","i","c">>,
        b \o <<" ","H","o","t","s","p","o","t"," ","-"," ","T","e","c","h"," ","C","o","r","r","i","d","o","r">>,
        <<"E","m","e","r","g","i","n","g"," ">> \o b \o <<" ","D","i","s","t","r","i","c","t">>,
        <<"P","r","e","m","i","u","m"," ">> \o b \o <<" ","L","o","c","a","t","i","o","n">>,
        <<"S","t","r","a","t","e","g","i","c"," ">> \o b \o <<" ","P","o","i","n","t">> >>]],
    [key |-> <<"m","a","r","k","e","t">>, value |-> [kind |-> "names", names |-> <<
        <<"U","n","d","e","r","s","e","r","v","e","d"," ","M","a","r","k","e","t"," ","-"," ">> \o b,
        <<"H","i","g","h"," ","G","r","o","w","t","h"," ","P","o","t","e","n","t","i","a","l"," ","Z","o","n","e">>,
        <<"M","a","r","k","e","t"," ","G","a","p"," ","-"," ">> \o b \o <<" ","O","p","p","o","r","t","u","n","i","t","y">>,
        <<"E","m","e","r","g","i","n","g"," ","C","o","n","s","u","m","e","r"," ","H","u","b">>,
        <<"U","n","t","a","p","p","e","d"," ">> \o b \o <<" ","M","a","r","k","e","t">> >>]],
    [key |-> <<"c","o","m","p","e","t","i","t","o","r">>, value |-> [kind |-> "names", names |-> <<
        <<"L","o","w"," ","C","o","m","p","e","t","i","t","i","o","n"," ","Z","o","n","e">>,
        <<"C","o","m","p","e","t","i","t","o","r"," ","W","e","a","k"," ","S","p","o","t">>,
        <<"M","a","r","k","e","t"," ","S","h","a","r","e"," ","O","p","p","o","r","t","u","n","i","t","y">>,
        <<"S","t","r","a","t","e","g","i","c"," ","E","n","t","r","y"," ","P","o","i","n","t">>,
        <<"C","o","m","p","e","t","i","t","i","o","n"," ","G","a","p"," ","A","r","e","a">> >>]],
    [key |-> <<"o","p","t","i","m","i","z","e">>, value |-> [kind |-> "names", names |-> <<
        <<"O","p","t","i","m","a","l"," ","C","o","v","e","r","a","g","e"," ","P","o","i","n","t">>,
        <<"N","e","t","w","o","r","k"," ","E","f","f","i","c","i","e","n","c","y"," ","Z","o","n","e">>,
        <<"S","u","p","p","l","y"," ","C","h","a","i","n"," ","H","u","b">>,
        <<"L","o","g","i","s","t","i","c","s"," ","O","p","t","i","m","i","z","a","t","i","o","n"," ","P","o","i","n","t">>,
        <<"R","e","s","o","u","r","c","e"," ","E","f","f","i","c","i","e","n","c","y"," ","L","o","c","a","t","i","o","n">> >>]] >>

\* locationNames[queryType || 'location'] || locationNames.location
namesFor(businessType, qType) ==
    LET table == locationNames(businessType)
        found == GetProperty(table, IF Truthy(qType) THEN qType ELSE <<"l","o","c","a","t","i","o","n">>)
    IN  IF found.kind /= "undefined" THEN found
        ELSE GetProperty(table, <<"l","o","c","a","t","i","o","n">>)

\* names[i], for i from 0.
nameAt(names, i) ==
    IF names.kind = "names" /\ i + 1 <= Len(names.names)
    THEN Str(names.names[i + 1]) ELSE Undefined

SuggestionCount == 5    \* for (let i = 0; i < 5; i++)

\* The suggestions pushed by the first n rounds of the loop; round i (from
\* 0) draws Math.random() three times: lat, lng, confidence.  The time
\* stamp Date.now() in the id is left out.
RECURSIVE suggestionsUpTo(_, _, _, _, _)
suggestionsUpTo(coords, names, hasITContext, stream, n) ==
    IF n = 0 THEN << >>
    ELSE LET i == n - 1
         IN  Append(suggestionsUpTo(coords, names, hasITContext, stream, n - 1),
                [id |-> [prefix |-> "ai", index |-> i],
                 name |-> nameAt(names, i),
                 category |-> "ai_suggested",
                 lat |-> Plus(latOf(coords), Mul(random(stream, 3 * i) - Scale \div 2, 400)),
                 lng |-> Plus(lngOf(coords), Mul(random(stream, 3 * i + 1) - Scale \div 2, 400)),
                 confidence |-> 5500 + Mul(random(stream, 3 * i + 2), 2500),
                 verified |-> FALSE,
                 attributes |->
                     [tags |-> << <<"A","I"," ","G","e","n","e","r","a","t","e","d">>,
                                  IF hasITContext THEN <<"T","e","c","h"," ","Z","o","n","e">>
                                  ELSE <<"C","o","m","m","e","r","c","i","a","l"," ","Z","o","n","e">> >>,
                      hours |-> IF hasITContext THEN <<"7"," ","A","M"," ","-"," ","1","0"," ","P","M">>
                                ELSE <<"9"," ","A","M"," ","-"," ","9"," ","P","M">>]])

\* A loop that stops one round early.
suggestionsOneShort(coords, names, hasITContext, stream) ==
    suggestionsUpTo(coords, names, hasITContext, stream, SuggestionCount - 1)

\* for (let i = 0; i < 5; i++) suggestions.push({...})
suggestions(coords, names, hasITContext, stream) ==
    suggestionsUpTo(coords, names, hasITContext, stream, SuggestionCount)

generateAISuggestions(loc, businessType, contextFactors, qType, stream) ==
    LET coords == coordinatesOf(loc)
        hasITContext == someIncludes(contextFactors, ITWords)
    IN  IF coords.threw \/ hasITContext = "throw" THEN Throws
        ELSE Returns(suggestions(coords.value, namesFor(businessType, qType),
                                 hasITContext = "true", stream))

\* A validation rate drawn from [0.80, 0.90).
validationRateHigh(r) == 8000 + Mul(r, 1000)

\* const validationRate = 0.60 + Math.random() * 0.10
validationRate(r) == 6000 + Mul(r, 1000)

\* A validation rate drawn from [0.60, 1.60).
validCountWide(length, r) == MathFloor(length * (6000 + r))

\* const validCount = Math.floor(aiSuggestions.length * validationRate)
validCount(length, r) == MathFloor(length * validationRate(r))

verifiedNames(businessType) ==
    LET b == ToText(businessType)
    IN  << <<"V","e","r","i","f","i","e","d",":"," ">> \o b \o <<" ","-"," ","P","r","i","m","e"," ","L","o","c","a","t","i","o","n">>,
           <<"V","a","l","i","d","a","t","e","d",":"," ","H","i","g","h","-","T","r","a","f","f","i","c"," ">> \o b \o <<" ","Z","o","n","e">>,
           <<"C","o","n","f","i","r","m","e","d",":"," ">> \o b \o <<" ","O","p","p","o","r","t","u","n","i","t","y">>,
           <<"G","r","o","u","n","d"," ","T","r","u","t","h",":"," ","O","p","t","i","m","a","l"," ">> \o b \o <<" ","S","p","o","t">> >>

\* verifiedNames[i] || `Verified Location ${i + 1}`
verifiedNameAt(names, i) ==
    IF i + 1 <= Len(names) /\ names[i + 1] /= << >>
    THEN names[i + 1]
    ELSE <<"V","e","r","i","f","i","e","d"," ","L","o","c","a","t","i","o","n"," ">> \o numberText(i + 1)

\* The verified POIs pushed by the first n rounds of the loop; the draws
\* start at call number first; round i draws four times: lat, lng,
\* confidence, rating.
RECURSIVE verifiedPOIsUpTo(_, _, _, _, _)
verifiedPOIsUpTo(coords, names, stream, first, n) ==
    IF n = 0 THEN << >>
    ELSE LET i == n - 1
             k == first + 4 * i
         IN  Append(verifiedPOIsUpTo(coords, names, stream, first, n - 1),
                [id |-> [prefix |-> "verified", index |-> i],
                 name |-> Str(verifiedNameAt(names, i)),
                 category |-> "ground_truth_verified",
                 lat |-> Plus(latOf(coords), Mul(random(stream, k) - Scale \div 2, 350)),
                 lng |-> Plus(lngOf(coords), Mul(random(stream, k + 1) - Scale \div 2, 350)),
                 confidence |-> 8200 + Mul(random(stream, k + 2), 1300),
                 verified |-> TRUE,
                 attributes |->
                     [tags |-> << <<"P","O","I"," ","C","l","a","s","s","i","f","i","e","r"," ","V","a","l","i","d","a","t","e","d">>, <<"G","r","o","u","n","d"," ","T","r","u","t","h">> >>,
                      rating |-> 35000 + Mul(random(stream, k + 3), 15000),
                      hours |-> <<"B","a","s","e","d"," ","o","n"," ","v","e","r","i","f","i","e","d"," ","o","p","e","r","a","t","i","n","g"," ","p","a","t","t","e","r","n","s">>]])

\* The first draw, call number first, is the validation rate.
validateWithGroundTruth(aiSuggestions, loc, businessType, stream, first) ==
    LET coords == coordinatesOf(loc)
        count == validCount(Len(aiSuggestions), random(stream, first))
    IN  IF coords.threw THEN Throws
        ELSE Returns(verifiedPOIsUpTo(coords.value, verifiedNames(businessType),
                                      stream, first + 1, count))

\* r is the one draw: Math.floor(Math.random() * 3) + 2.
identifyCorrectionsAndGaps(contextFactors, businessType, loc, r) ==
    LET isIT == someIncludes(contextFactors, ITWords)
        isResidential == someIncludes(contextFactors, { <<"r","e","s","i","d","e","n","t","i","a","l">> })
        corrections ==
            IF isIT = "true"
            THEN << <<"A","I"," ","a","s","s","u","m","e","d"," ","s","t","a","n","d","a","r","d"," ","c","o","m","m","e","r","c","i","a","l"," ","h","o","u","r","s",";"," ","a","c","t","u","a","l"," ","I","T"," ","p","a","r","k"," ","p","e","a","k"," ","t","i","m","e","s"," ","a","r","e"," ","8","-","1","0"," ","A","M"," ","a","n","d"," ","6","-","8"," ","P","M">>,
                    <<"A","I"," ","s","u","g","g","e","s","t","e","d"," ","g","e","n","e","r","a","l"," ","c","o","m","m","e","r","c","i","a","l"," ","a","r","e","a","s",";"," ","I","T"," ","c","o","r","r","i","d","o","r","s"," ","h","a","v","e"," ","d","i","f","f","e","r","e","n","t"," ","f","o","o","t"," ","t","r","a","f","f","i","c"," ","p","a","t","t","e","r","n","s">> >>
            ELSE << <<"A","I"," ","o","v","e","r","e","s","t","i","m","a","t","e","d"," ","f","o","o","t"," ","t","r","a","f","f","i","c"," ","i","n"," ","s","u","g","g","e","s","t","e","d"," ","Z","o","n","e"," ","2"," ","b","y"," ","a","p","p","r","o","x","i","m","a","t","e","l","y"," ","3","5","%">>,
                    <<"C","o","m","p","e","t","i","t","i","o","n"," ","d","e","n","s","i","t","y"," ","i","n"," ","A","I","'","s"," ","t","o","p"," ","p","i","c","k"," ","i","s"," ","h","i","g","h","e","r"," ","t","h","a","n"," ","e","s","t","i","m","a","t","e","d"," ","(","4"," ","s","i","m","i","l","a","r"," ","b","u","s","i","n","e","s","s","e","s"," ","w","i","t","h","i","n"," ","5","0","0","m",")">> >>
        gaps ==
            << <<"I","d","e","n","t","i","f","i","e","d"," ">> \o numberText(MathFloor(r * 3) + 2)
                   \o <<" ","u","n","d","e","r","s","e","r","v","e","d"," ","n","e","i","g","h","b","o","r","h","o","o","d","s"," ","w","i","t","h"," ","h","i","g","h"," ","d","e","m","a","n","d"," ","p","o","t","e","n","t","i","a","l">>,
               <<"F","o","u","n","d"," ","m","a","r","k","e","t"," ","g","a","p",":"," ","N","o"," ">> \o ToText(businessType) \o <<" ","w","i","t","h","i","n"," ","1","k","m"," ","o","f"," ">>
                   \o ToText(loc) \o <<" ","C","e","n","t","r","a","l"," ","M","e","t","r","o"," ","S","t","a","t","i","o","n">> >>
            \o (IF isResidential = "true"
                THEN << <<"R","e","s","i","d","e","n","t","i","a","l"," ","z","o","n","e","s"," ","i","n"," ">> \o ToText(loc)
                           \o <<" ","E","a","s","t"," ","s","h","o","w"," ","4","0","%"," ","h","i","g","h","e","r"," ","d","e","m","a","n","d"," ","t","h","a","n"," ","c","u","r","r","e","n","t"," ","s","u","p","p","l","y">> >>
                ELSE << >>)
    IN  IF isIT = "throw" \/ isResidential = "throw" THEN Throws
        ELSE Returns([corrections |-> corrections, gaps |-> gaps])

\* The text block, by the values that fill its template.
generateRecommendation(businessType, loc, verified, corrections, gaps) ==
    [businessType |-> ToText(businessType),
     location |-> ToText(loc),
     verifiedLocations |-> Len(verified),
     correctionsMade |-> Len(corrections),
     gapsFound |-> Len(gaps),
     topLocation |-> IF Len(verified) > 0 THEN verified[1].name
                     ELSE Str(<<"N","o"," ","o","p","t","i","m","a","l"," ","l","o","c","a","t","i","o","n"," ","i","d","e","n","t","i","f","i","e","d">>),
     \* Math.round(verified[0].confidence * 100), a percentage
     confidence |-> IF Len(verified) > 0 THEN MathRound(verified[1].confidence * 100)
                    ELSE 0]

\* An accuracy left as the ratio verified / suggested.
accuracyAsRatio(verifiedLength, suggestedLength) ==
    (verifiedLength * Scale) \div Max(suggestedLength, 1)

\* Math.round((verifiedPOIs.length / Math.max(aiSuggestions.length, 1)) * 100)
accuracy(verifiedLength, suggestedLength) ==
    MathRound(((verifiedLength * Scale) \div Max(suggestedLength, 1)) * 100) * Scale

AccuracyCap == 70   \* Math.min(accuracy, 70)
Zoom == 13          \* zoom: 13

\* The body of analyzeQuery after the await, for the draws of stream.
analyzeQueryAfterAwait(q, qType, analysis, stream) ==
    LET fields == destructure(analysis)
        a == fields.value
        aiSuggestions ==
            generateAISuggestions(a.location, a.businessType, a.contextualFactors,
                                  qType, stream)
        verifiedPOIs ==
            validateWithGroundTruth(aiSuggestions.value, a.location, a.businessType,
                                    stream, 3 * SuggestionCount)
        drawn == 3 * SuggestionCount + 1 + 4 * Len(verifiedPOIs.value)
        cg == identifyCorrectionsAndGaps(a.contextualFactors, a.businessType,
                                         a.location, random(stream, drawn))
    IN  IF fields.threw THEN Throws
        ELSE IF aiSuggestions.threw THEN Throws
        ELSE IF verifiedPOIs.threw THEN Throws
        ELSE IF cg.threw THEN Throws
        ELSE Returns(
            [query |-> q,
             aiReasoning |->
                 [interpretation |-> a.marketInsights,
                  suggestedLocations |-> aiSuggestions.value,
                  assumptions |-> a.keyAssumptions,
                  confidence |-> 7200 + Mul(random(stream, drawn + 1), 800)],
             groundTruth |->
                 [verifiedPOIs |-> verifiedPOIs.value,
                  corrections |-> cg.value.corrections,
                  gaps |-> cg.value.gaps,
                  accuracy |-> Min(accuracy(Len(verifiedPOIs.value),
                                            Len(aiSuggestions.value)),
                                   AccuracyCap * Scale)],
             recommendation |->
                 generateRecommendation(a.businessType, a.location, verifiedPOIs.value,
                                        cg.value.corrections, cg.value.gaps),
             visualization |->
                 [center |-> coordinatesOf(a.location).value, zoom |-> Zoom]])

----------------------------------------------------------------------------
(* The page (src/pages/index.tsx): the state of the component Home *)

\* useState<[number, number]>([12.9716, 77.5946]) and useState(12)
HomeCenter == Coords(129716, 775946)
HomeZoom == 12

\* The values of the useState hooks at the first render.
InitialPage ==
    [query |-> << >>, queryType |-> <<"l","o","c","a","t","i","o","n">>, isLoading |-> FALSE,
     result |-> Null, llmStatus |-> "demo",
     mapCenter |-> HomeCenter, mapZoom |-> HomeZoom]

\* What the user has done: the analyze requests started, the query of the
\* latest one, and whether handleReset has run with no request started
\* since.
NothingDone == [submitted |-> 0, lastQuery |-> undefined, reset |-> FALSE]

\* The page after its first render and its effect, which calls
\* checkLLMStatus: the fetch of /api/status is pending.
PageIdle ==
    /\ page = InitialPage
    /\ inFlight = {}
    /\ statusFetch = NotSettled
    /\ history = NothingDone

----------------------------------------------------------------------------
(* The variables of a component that the specification at hand does not use *)

ClassifierIdle ==
    /\ name = << >>
    /\ context = undefined
    /\ bestMatch = [category |-> "", confidence |-> 0]

GazetteerIdle ==
    /\ location = << >>
    /\ coordinates = NoProperty

InterpreterIdle ==
    /\ query = << >>
    /\ llmAnalysis = Undefined
    /\ outbound = 0
    /\ chatCompletion = NotSettled
    /\ earlier = [made |-> FALSE, query |-> << >>, analysis |-> Undefined]

OrchestratorIdle ==
    /\ queryType = undefined
    /\ result = [settled |-> "pending"]

\* No response sent yet; res.status(code).json(body); and a handler whose
\* promise rejects before it sends anything.
NoResponse == [status |-> 0, json |-> Undefined, threw |-> FALSE]
Sent(code, body) == [status |-> code, json |-> body, threw |-> FALSE]
Threw == [status |-> 0, json |-> Undefined, threw |-> TRUE]

HandlerIdle ==
    /\ request = [route |-> "none"]
    /\ response = NoResponse

\* The configuration is read when the module is loaded and never changes.
Providers == {"ollama", "openai", "simulate", "other"}

InitConfig ==
    /\ USE_LLM \in BOOLEAN
    /\ LLM_PROVIDER \in Providers

\* A component that reads no configuration.
ConfigIdle ==
    /\ USE_LLM = FALSE
    /\ LLM_PROVIDER = "ollama"

----------------------------------------------------------------------------
(* The classifier's inputs *)

MaxWords == 2

\* Every keyword of the taxonomy as declared.
DeclaredKeywords ==
    UNION {{POI_CATEGORIES[i].keywords[j] : j \in 1..Len(POI_CATEGORIES[i].keywords)}
              : i \in 1..Len(POI_CATEGORIES)}

\* Words that names are made of: keywords of several categories, in several
\* letter cases, and words that hold no keyword.
NameWords == { <<"S","r","i">>, <<"D","e","v","i">>, <<"C","h","a","i">>, <<"p","o","s","t"," ","o","f","f","i","c","e">>, <<"G","O","V","E","R","N","M","E","N","T">>,
               <<"T","e","c","h"," ","P","a","r","k">>, <<"H","e","a","l","t","h"," ","C","l","u","b">>, <<"c","a","f","e">> }

RECURSIVE Phrases(_)
Phrases(n) ==
    IF n = 0 THEN {<< >>}
    ELSE LET shorter == Phrases(n - 1)
         IN  shorter \cup NameWords
                 \cup {p \o <<" ">> \o w : p \in shorter \ {<< >>}, w \in NameWords}

ClassifierNames ==
    DeclaredKeywords
        \cup {toUpperCase(k) : k \in DeclaredKeywords}
        \cup {toLowerCase(k) : k \in DeclaredKeywords}
        \cup Phrases(MaxWords)

ClassifierContexts ==
    { undefined,
      << >>,
      <<"T","r","a","n","s","i","t"," ","h","u","b","s">>,
      <<"t","r","a","n","s","i","t"," ","h","u","b","s"," ","o","n"," ","m","a","j","o","r"," ","r","o","a","d","s">>,
      <<"C","O","M","M","E","R","C","I","A","L"," ","Z","O","N","E","S",","," ","U","R","B","A","N"," ","C","E","N","T","E","R","S"," ","A","N","D"," ","F","A","M","I","L","Y"," ","A","R","E","A","S">>,
      <<"N","e","a","r"," ","r","e","s","i","d","e","n","t","i","a","l"," ","a","r","e","a","s",","," ","m","a","i","n"," ","r","o","a","d","s">> }

----------------------------------------------------------------------------
(* The gazetteer's inputs *)

MaxPad == 1

RECURSIVE Spaces(_)
Spaces(n) == IF n = 0 THEN << >> ELSE <<" ">> \o Spaces(n - 1)

\* s with a space after each of its first n characters.
RECURSIVE SpacedOut(_, _)
SpacedOut(s, n) ==
    IF n = 0 \/ s = << >> THEN s
    ELSE <<Head(s)>> \o <<" ">> \o SpacedOut(Tail(s), n - 1)

CityKeys == {CITY_COORDINATES[i].key : i \in 1..Len(CITY_COORDINATES)}

UnknownPlaces ==
    { << >>, <<"A","t","l","a","n","t","i","s">>, <<"N","e","w"," ","D","e","l","h","i">>, <<"d","e","l","h","i",",">>, <<"M","y","s","o","r","e">>, <<"L","a","g","o","s">>,
      <<"c","o","n","s","t","r","u","c","t","o","r">>, <<"C","o","n","s","t","r","u","c","t","o","r">>, <<"t","o","S","t","r","i","n","g">>, <<"_","_","p","r","o","t","o","_","_">> }

GazetteerInputs ==
    LET words == CityKeys \cup {toUpperCase(k) : k \in CityKeys}
                     \cup {capitalize(k) : k \in CityKeys}
                     \cup UnknownPlaces
    IN  {Spaces(n) \o SpacedOut(w, m) \o Spaces(n) :
             w \in words, n \in 0..MaxPad, m \in 0..MaxPad}

InitGazetteer ==
    /\ pc = "call"
    /\ location \in GazetteerInputs
    /\ coordinates = NoProperty
    /\ ClassifierIdle /\ ConfigIdle /\ InterpreterIdle /\ OrchestratorIdle
    /\ HandlerIdle
    /\ PageIdle

\* One call getCityCoordinates(location).
GetCityCoordinates ==
    /\ pc = "call"
    /\ coordinates' = getCityCoordinates(location)
    /\ pc' = "returned"
    /\ UNCHANGED <<location, classifierVars, configVars, interpreterVars,
                   orchestratorVars, handlerVars>>
    /\ UNCHANGED pageVars

NextGazetteer == GetCityCoordinates

SpecGazetteer == InitGazetteer /\ [][NextGazetteer]_vars

InitClassify ==
    /\ pc = "call"
    /\ name \in ClassifierNames
    /\ context \in ClassifierContexts
    /\ bestMatch = [category |-> "", confidence |-> 0]
    /\ GazetteerIdle /\ ConfigIdle /\ InterpreterIdle /\ OrchestratorIdle
    /\ HandlerIdle
    /\ PageIdle

\* One call classifyPOI(name, context).
ClassifyPOI ==
    /\ pc = "call"
    /\ bestMatch' = classifyPOI(name, context)
    /\ pc' = "returned"
    /\ UNCHANGED <<name, context, gazetteerVars, configVars, interpreterVars,
                   orchestratorVars, handlerVars>>
    /\ UNCHANGED pageVars

NextClassify == ClassifyPOI

\* Contexts made of contextual rules: the rules of retail and entertainment
\* (which share "Commercial zones"), any number of them, separated by
\* commas.
RulePool ==
    POI_CATEGORIES[2].contextualRules \o POI_CATEGORIES[8].contextualRules

RECURSIVE RuleContexts(_)
RuleContexts(n) ==
    IF n = 0 THEN {<< >>}
    ELSE LET fewer == RuleContexts(n - 1)
         IN  fewer \cup {IF c = << >> THEN RulePool[n] ELSE c \o <<","," ">> \o RulePool[n] :
                           c \in fewer}

\* classifyPOI called with a name that holds no keyword and a context.
InitClassifyContext ==
    /\ pc = "call"
    /\ name \in { << >>, <<"S","r","i"," ","D","e","v","i">> }
    /\ context \in RuleContexts(Len(RulePool)) \cup {undefined}
    /\ bestMatch = [category |-> "", confidence |-> 0]
    /\ GazetteerIdle /\ ConfigIdle /\ InterpreterIdle /\ OrchestratorIdle
    /\ HandlerIdle
    /\ PageIdle

SpecClassifyContext == InitClassifyContext /\ [][NextClassify]_vars

SpecClassify == InitClassify /\ [][NextClassify]_vars

----------------------------------------------------------------------------
(* The interpreter's inputs, and calls of analyzeSpatialQuery one after     *)
(* the other                                                               *)

ExampleQuery == <<"W","h","e","r","e"," ","s","h","o","u","l","d"," ","I"," ","o","p","e","n"," ","a"," ","c","h","a","i"," ","s","t","a","l","l"," ","n","e","a","r"," ","I","T"," ","p","a","r","k","s"," ","i","n"," ","B","a","n","g","a","l","o","r","e","?">>

Queries ==
    { ExampleQuery,
      << >>,
      <<"B","e","s","t"," ","p","h","a","r","m","a","c","y"," ","l","o","c","a","t","i","o","n"," ","i","n"," ","r","e","s","i","d","e","n","t","i","a","l"," ","D","e","l","h","i">>,
      <<"U","n","d","e","r","s","e","r","v","e","d"," ","g","y","m"," ","m","a","r","k","e","t"," ","n","e","a","r"," ","m","e","t","r","o"," ","s","t","a","t","i","o","n","s"," ","i","n"," ","P","u","n","e"," ","o","r"," ","M","u","m","b","a","i">>,
      <<"T","E","C","H"," ","P","A","R","K"," ","s","t","e","a","k","h","o","u","s","e",","," ","N","a","i","r","o","b","i",","," ","K","e","n","y","a">>,
      <<"r","e","s","t","a","u","r","a","n","t"," ","i","n"," ","L","u","c","k","n","o","w"," ","c","o","m","m","e","r","c","i","a","l"," ","a","r","e","a">>,
      <<"S","p","a","c","e"," ","f","o","r"," ","a"," ","b","a","n","k"," ","b","r","a","n","c","h"," ","i","n"," ","C","h","e","n","n","a","i">>,
      <<"O","p","e","n"," ","a"," ","s","u","p","e","r","m","a","r","k","e","t">> }

ValidAnswer == JSON_TEXTS[1].text

Contents ==
    {JSON_TEXTS[i].text : i \in 1..Len(JSON_TEXTS)}
        \cup { <<"bq","bq","bq","j","s","o","n","\n">> \o ValidAnswer \o <<"\n","bq","bq","bq">>,
               <<"bq","bq","bq","\n">> \o ValidAnswer \o <<"\n","bq","bq","bq","\n">>,
               <<" "," ">> \o ValidAnswer \o <<"\n">>,
               <<"S","o","r","r","y",","," ","I"," ","c","a","n","n","o","t"," ","h","e","l","p"," ","w","i","t","h"," ","t","h","a","t",".">>,
               <<"bq","bq","bq">> }

Completions ==
    {Rejected("network error"), Rejected("timeout"),
     Responded(Undefined), Responded(Null), Responded(Str(<< >>))}
        \cup {Responded(Str(c)) : c \in Contents}

InitInterpret ==
    /\ pc = "idle"
    /\ InitConfig
    /\ InterpreterIdle
    /\ ClassifierIdle /\ GazetteerIdle /\ OrchestratorIdle /\ HandlerIdle
    /\ PageIdle

\* The call before the one that starts.
Remembered ==
    IF pc = "resolved"
    THEN [made |-> TRUE, query |-> query, analysis |-> llmAnalysis]
    ELSE earlier

\* analyzeSpatialQuery(q) with the LLM disabled: simulateAnalysis(q).
InterpretDisabled ==
    /\ pc \in {"idle", "resolved"}
    /\ llmDisabled
    /\ \E q \in Queries :
           /\ query' = q
           /\ llmAnalysis' = simulateAnalysis(q)
    /\ outbound' = 0
    /\ chatCompletion' = NotSettled
    /\ earlier' = Remembered
    /\ pc' = "resolved"
    /\ UNCHANGED <<classifierVars, gazetteerVars, configVars, orchestratorVars,
                   handlerVars>>
    /\ UNCHANGED pageVars

\* analyzeSpatialQuery(q) with the LLM enabled and no client for the
\* provider: simulateAnalysis(q).
InterpretNoClient ==
    /\ pc \in {"idle", "resolved"}
    /\ ~llmDisabled /\ ~hasClient
    /\ \E q \in Queries :
           /\ query' = q
           /\ llmAnalysis' = simulateAnalysis(q)
    /\ outbound' = 0
    /\ chatCompletion' = NotSettled
    /\ earlier' = Remembered
    /\ pc' = "resolved"
    /\ UNCHANGED <<classifierVars, gazetteerVars, configVars, orchestratorVars,
                   handlerVars>>
    /\ UNCHANGED pageVars

\* analyzeSpatialQuery(q) with the LLM enabled: the chat-completion request
\* is sent and awaited.
InterpretRequest ==
    /\ pc \in {"idle", "resolved"}
    /\ ~llmDisabled /\ hasClient
    /\ \E q \in Queries : query' = q
    /\ llmAnalysis' = Undefined
    /\ outbound' = 1
    /\ chatCompletion' = NotSettled
    /\ earlier' = Remembered
    /\ pc' = "awaitLLM"
    /\ UNCHANGED <<classifierVars, gazetteerVars, configVars, orchestratorVars,
                   handlerVars>>
    /\ UNCHANGED pageVars

\* The awaited request settles; analyzeSpatialQuery resolves.
InterpretSettled ==
    /\ pc = "awaitLLM"
    /\ \E settled \in Completions :
           /\ chatCompletion' = settled
           /\ llmAnalysis' = afterCompletion(query, settled)
    /\ pc' = "resolved"
    /\ UNCHANGED <<query, outbound, earlier, classifierVars, gazetteerVars,
                   configVars, orchestratorVars, handlerVars>>
    /\ UNCHANGED pageVars

NextInterpret ==
    \/ InterpretDisabled
    \/ InterpretNoClient
    \/ InterpretRequest
    \/ InterpretSettled

SpecInterpret == InitInterpret /\ [][NextInterpret]_vars

----------------------------------------------------------------------------
(* One call of analyzeQuery *)

AnalyzeQueries ==
    { ExampleQuery,
      << >>,
      <<"B","e","s","t"," ","p","h","a","r","m","a","c","y"," ","l","o","c","a","t","i","o","n"," ","i","n"," ","r","e","s","i","d","e","n","t","i","a","l"," ","D","e","l","h","i">>,
      <<"r","e","s","t","a","u","r","a","n","t"," ","i","n"," ","L","u","c","k","n","o","w"," ","c","o","m","m","e","r","c","i","a","l"," ","a","r","e","a">> }

QueryTypes ==
    { undefined, << >>, <<"l","o","c","a","t","i","o","n">>, <<"m","a","r","k","e","t">>, <<"c","o","m","p","e","t","i","t","o","r">>, <<"o","p","t","i","m","i","z","e">>,
      <<"h","e","a","t","m","a","p">>, <<"c","o","n","s","t","r","u","c","t","o","r">> }

Init ==
    /\ pc = "idle"
    /\ InitConfig
    /\ InterpreterIdle /\ OrchestratorIdle
    /\ ClassifierIdle /\ GazetteerIdle /\ HandlerIdle
    /\ PageIdle

\* analyzeQuery(q, qType) up to its await, where analyzeSpatialQuery
\* resolves without a request: the LLM is disabled, or has no client.
AnalyzeQuerySimulated ==
    /\ pc = "idle"
    /\ llmDisabled \/ ~hasClient
    /\ \E q \in AnalyzeQueries, qType \in QueryTypes :
           /\ query' = q
           /\ queryType' = qType
           /\ llmAnalysis' = simulateAnalysis(q)
    /\ outbound' = 0
    /\ pc' = "resolved"
    /\ UNCHANGED <<chatCompletion, earlier, result, classifierVars,
                   gazetteerVars, configVars, handlerVars>>
    /\ UNCHANGED pageVars

\* analyzeQuery(q, qType) up to its await, where analyzeSpatialQuery sends
\* the chat-completion request.
AnalyzeQueryRequest ==
    /\ pc = "idle"
    /\ ~llmDisabled /\ hasClient
    /\ \E q \in AnalyzeQueries, qType \in QueryTypes :
           /\ query' = q
           /\ queryType' = qType
    /\ llmAnalysis' = Undefined
    /\ outbound' = 1
    /\ pc' = "awaitLLM"
    /\ UNCHANGED <<chatCompletion, earlier, result, classifierVars,
                   gazetteerVars, configVars, handlerVars>>
    /\ UNCHANGED pageVars

\* The awaited request settles; analyzeSpatialQuery resolves.
AnalyzeQuerySettled ==
    /\ pc = "awaitLLM"
    /\ \E settled \in Completions :
           /\ chatCompletion' = settled
           /\ llmAnalysis' = afterCompletion(query, settled)
    /\ pc' = "resolved"
    /\ UNCHANGED <<query, outbound, earlier, classifierVars, gazetteerVars,
                   configVars, orchestratorVars, handlerVars>>
    /\ UNCHANGED pageVars

\* analyzeQuery after its await: it returns the AnalysisResult, or throws.
AnalyzeQueryCompletes ==
    /\ pc = "resolved"
    /\ \E stream \in RandomStreams :
           LET done == analyzeQueryAfterAwait(query, queryType, llmAnalysis, stream)
           IN  result' = IF done.threw
                         THEN [settled |-> "rejected", error |-> done.error]
                         ELSE [settled |-> "fulfilled", value |-> done.value]
    /\ pc' = "done"
    /\ UNCHANGED <<queryType, classifierVars, gazetteerVars, configVars,
                   interpreterVars, handlerVars>>
    /\ UNCHANGED pageVars

Next ==
    \/ AnalyzeQuerySimulated
    \/ AnalyzeQueryRequest
    \/ AnalyzeQuerySettled
    \/ AnalyzeQueryCompletes

Spec == Init /\ [][Next]_vars

\* One call of analyzeQuery, or one call of classifyPOI.
InitCalls == Init \/ InitClassify
NextCalls == Next \/ NextClassify
SpecCalls == InitCalls /\ [][NextCalls]_vars

----------------------------------------------------------------------------
(* The HTTP handlers: analyze (src/unnamed/part_000), status               *)
(* (src/pages/api/status.ts) and test-llm (src/pages/api/test-llm.ts).      *)
(* req.body is what the framework's body parser hands over: a JSON value   *)
(* (null included) for a JSON request, a text otherwise, the empty text    *)
(* for a request without body.                                             *)

\* A body that is an object, by the four properties the handlers read.
Body(q, qType, endpoint, model) ==
    [t |-> "object", query |-> q, queryType |-> qType,
     endpoint |-> endpoint, model |-> model]

\* const { query, ... } = req.body: null and undefined have no properties
\* and throw; a text or a number has none of these properties.
Destructurable(body) == body.t \notin {"null", "undefined"}
QueryOf(body) == IF body.t = "object" THEN body.query ELSE Undefined
QueryTypeOf(body) == IF body.t = "object" THEN body.queryType ELSE Undefined
EndpointOf(body) == IF body.t = "object" THEN body.endpoint ELSE Undefined

\* A handler that lets every method through.
anyMethodAllowed(method) == TRUE

\* if (req.method !== 'POST') return res.status(405)...
methodAllowed(method) == method = "POST"

\* if (!query || typeof query !== 'string')
queryRequired(q) == IF q.t = "string" THEN q.v = << >> ELSE TRUE

\* The queryType argument as analyzeQuery sees it.
queryTypeArgument(qType) == IF qType.t = "string" THEN qType.v ELSE undefined

\* An analyze handler that answers 500 whatever analyzeQuery did.
analyzeAlwaysFails(settled) ==
    Sent(500, [error |-> "Failed to analyze query"])

\* return res.status(200).json(result), or the catch block's 500.
analyzeResponse(settled) ==
    IF settled.settled = "fulfilled" THEN Sent(200, settled.value)
    ELSE Sent(500, [error |-> "Failed to analyze query"])

\* A status handler that reports the mode "llm" whatever the probe found.
modeAlwaysLLM(llmConnected) == "llm"

\* mode: llmConnected ? 'llm' : 'simulation'
modeOf(llmConnected) == IF llmConnected THEN "llm" ELSE "simulation"

\* The status handler, by what await testLLMConnection() came to: a value,
\* or an exception for the catch block.
statusResponse(probe) ==
    IF probe.threw
    THEN Sent(200, [llmConnected |-> FALSE, mode |-> "simulation"])
    ELSE Sent(200, [llmConnected |-> probe.value, mode |-> modeOf(probe.value)])

\* testLLMConnection after its await: true, or false from the catch block.
probeAfterCompletion(settled) == Returns(settled.settled = "fulfilled")

\* What an awaited fetch(...) can come to: rejected (network error, timeout
\* of the AbortSignal, invalid URL), or a response with ok true or false.
Fetches == {[settled |-> "rejected"], [settled |-> "fulfilled", ok |-> TRUE],
            [settled |-> "fulfilled", ok |-> FALSE]}

HandlerQueries == { ExampleQuery, <<"O","p","e","n"," ","a"," ","s","u","p","e","r","m","a","r","k","e","t">> }

AnalyzeBodies ==
    {Null, Str(<< >>), Str(<<"c","h","a","i"," ","s","t","a","l","l">>), Num(42)}
        \cup {Body(q, Undefined, Undefined, Undefined) :
                 q \in {Undefined, Null, Num(42), Str(<< >>)}}
        \cup {Body(Str(q), qType, Undefined, Undefined) :
                 q \in HandlerQueries,
                 qType \in {Undefined, Str(<<"m","a","r","k","e","t">>), Str(<<"c","o","n","s","t","r","u","c","t","o","r">>)}}

TestLLMBodies ==
    {Null, Str(<< >>),
     Body(Undefined, Undefined, Undefined, Undefined),
     Body(Undefined, Undefined, Num(42), Undefined),
     Body(Undefined, Undefined, Str(<<"h","t","t","p",":","/","/","l","o","c","a","l","h","o","s","t",":","1","1","4","3","4","/","v","1">>), Str(<<"l","l","a","m","a","3",".","2">>)),
     Body(Undefined, Undefined, Str(<<"h","t","t","p",":","/","/","l","o","c","a","l","h","o","s","t",":","1","1","4","3","4","/","v","1">>), Undefined)}

Methods == {"GET", "POST"}

Requests ==
    [route : {"analyze"}, method : Methods, body : AnalyzeBodies]
        \cup [route : {"status"}, method : Methods, body : {Str(<< >>)}]
        \cup [route : {"test-llm"}, method : Methods, body : TestLLMBodies]

InitHandlers ==
    /\ pc = "received"
    /\ InitConfig
    /\ request \in Requests
    /\ response = NoResponse
    /\ InterpreterIdle /\ OrchestratorIdle /\ ClassifierIdle /\ GazetteerIdle
    /\ PageIdle

\* Either handler with a method check answers 405 to a method that is not POST.
MethodNotAllowed ==
    /\ pc = "received"
    /\ request.route \in {"analyze", "test-llm"}
    /\ ~methodAllowed(request.method)
    /\ response' = Sent(405, [error |-> "Method not allowed"])
    /\ pc' = "responded"
    /\ UNCHANGED <<request, classifierVars, gazetteerVars, configVars,
                   interpreterVars, orchestratorVars>>
    /\ UNCHANGED pageVars

\* analyze: destructuring req.body throws inside the try block: 500.
AnalyzeBodyThrows ==
    /\ pc = "received"
    /\ request.route = "analyze"
    /\ methodAllowed(request.method)
    /\ ~Destructurable(request.body)
    /\ response' = Sent(500, [error |-> "Failed to analyze query"])
    /\ pc' = "responded"
    /\ UNCHANGED <<request, classifierVars, gazetteerVars, configVars,
                   interpreterVars, orchestratorVars>>
    /\ UNCHANGED pageVars

\* analyze: the query is missing, empty or not a string: 400.
AnalyzeQueryRequired ==
    /\ pc = "received"
    /\ request.route = "analyze"
    /\ methodAllowed(request.method)
    /\ Destructurable(request.body)
    /\ queryRequired(QueryOf(request.body))
    /\ response' = Sent(400, [error |-> "Query is required"])
    /\ pc' = "responded"
    /\ UNCHANGED <<request, classifierVars, gazetteerVars, configVars,
                   interpreterVars, orchestratorVars>>
    /\ UNCHANGED pageVars

\* analyze: analyzeQuery(query, queryType) is called and runs to its await;
\* analyzeSpatialQuery resolves without a request.
AnalyzeInvokesSimulated ==
    /\ pc = "received"
    /\ request.route = "analyze"
    /\ methodAllowed(request.method)
    /\ Destructurable(request.body)
    /\ ~queryRequired(QueryOf(request.body))
    /\ llmDisabled \/ ~hasClient
    /\ query' = QueryOf(request.body).v
    /\ queryType' = queryTypeArgument(QueryTypeOf(request.body))
    /\ llmAnalysis' = simulateAnalysis(QueryOf(request.body).v)
    /\ pc' = "resolved"
    /\ UNCHANGED <<outbound, chatCompletion, earlier, result, classifierVars,
                   gazetteerVars, configVars, handlerVars>>
    /\ UNCHANGED pageVars

\* analyze: analyzeQuery(query, queryType) is called and runs to its await;
\* analyzeSpatialQuery sends the chat-completion request.
AnalyzeInvokesRequest ==
    /\ pc = "received"
    /\ request.route = "analyze"
    /\ methodAllowed(request.method)
    /\ Destructurable(request.body)
    /\ ~queryRequired(QueryOf(request.body))
    /\ ~llmDisabled /\ hasClient
    /\ query' = QueryOf(request.body).v
    /\ queryType' = queryTypeArgument(QueryTypeOf(request.body))
    /\ outbound' = outbound + 1
    /\ pc' = "awaitLLM"
    /\ UNCHANGED <<llmAnalysis, chatCompletion, earlier, result, classifierVars,
                   gazetteerVars, configVars, handlerVars>>
    /\ UNCHANGED pageVars

\* analyze: the awaited analyzeQuery settled; the handler answers.
AnalyzeResponds ==
    /\ pc = "done"
    /\ request.route = "analyze"
    /\ response' = analyzeResponse(result)
    /\ pc' = "responded"
    /\ UNCHANGED <<request, classifierVars, gazetteerVars, configVars,
                   interpreterVars, orchestratorVars>>
    /\ UNCHANGED pageVars

\* status: testLLMConnection returns false without a request: the LLM is
\* disabled, or has no client.
StatusProbeOffline ==
    /\ pc = "received"
    /\ request.route = "status"
    /\ llmDisabled \/ ~hasClient
    /\ response' = statusResponse(Returns(FALSE))
    /\ pc' = "responded"
    /\ UNCHANGED <<request, classifierVars, gazetteerVars, configVars,
                   interpreterVars, orchestratorVars>>
    /\ UNCHANGED pageVars

\* status: testLLMConnection sends its test completion request.
StatusProbeRequest ==
    /\ pc = "received"
    /\ request.route = "status"
    /\ ~llmDisabled /\ hasClient
    /\ outbound' = outbound + 1
    /\ pc' = "awaitProbe"
    /\ UNCHANGED <<query, llmAnalysis, chatCompletion, earlier, classifierVars,
                   gazetteerVars, configVars, orchestratorVars, handlerVars>>
    /\ UNCHANGED pageVars

\* status: the test request settles and the handler answers.
StatusProbeSettled ==
    /\ pc = "awaitProbe"
    /\ \E settled \in {Rejected("network error"), Responded(Str(<<"o","k">>))} :
           /\ chatCompletion' = settled
           /\ response' = statusResponse(probeAfterCompletion(settled))
    /\ pc' = "responded"
    /\ UNCHANGED <<request, query, llmAnalysis, outbound, earlier, classifierVars,
                   gazetteerVars, configVars, orchestratorVars>>
    /\ UNCHANGED pageVars

\* test-llm: const { endpoint, model } = req.body is outside the try block:
\* a null body makes the handler throw.
TestLLMBodyThrows ==
    /\ pc = "received"
    /\ request.route = "test-llm"
    /\ methodAllowed(request.method)
    /\ ~Destructurable(request.body)
    /\ response' = Threw
    /\ pc' = "responded"
    /\ UNCHANGED <<request, classifierVars, gazetteerVars, configVars,
                   interpreterVars, orchestratorVars>>
    /\ UNCHANGED pageVars

\* test-llm: endpoint is not a string, endpoint.replace throws inside the
\* try block: connected false.
TestLLMEndpointThrows ==
    /\ pc = "received"
    /\ request.route = "test-llm"
    /\ methodAllowed(request.method)
    /\ Destructurable(request.body)
    /\ EndpointOf(request.body).t /= "string"
    /\ response' = Sent(200, [connected |-> FALSE])
    /\ pc' = "responded"
    /\ UNCHANGED <<request, classifierVars, gazetteerVars, configVars,
                   interpreterVars, orchestratorVars>>
    /\ UNCHANGED pageVars

\* test-llm: the first fetch, of the model list.
TestLLMListModels ==
    /\ pc = "received"
    /\ request.route = "test-llm"
    /\ methodAllowed(request.method)
    /\ Destructurable(request.body)
    /\ EndpointOf(request.body).t = "string"
    /\ outbound' = outbound + 1
    /\ pc' = "awaitTags"
    /\ UNCHANGED <<query, llmAnalysis, chatCompletion, earlier, classifierVars,
                   gazetteerVars, configVars, orchestratorVars, handlerVars>>
    /\ UNCHANGED pageVars

\* test-llm: the first fetch settles: rejected, connected false; ok,
\* connected true; not ok, the second fetch, of a completion.
TestLLMListSettled ==
    /\ pc = "awaitTags"
    /\ \E fetched \in Fetches :
           IF fetched.settled = "rejected"
           THEN /\ response' = Sent(200, [connected |-> FALSE])
                /\ pc' = "responded"
                /\ UNCHANGED outbound
           ELSE IF fetched.ok
           THEN /\ response' = Sent(200, [connected |-> TRUE])
                /\ pc' = "responded"
                /\ UNCHANGED outbound
           ELSE /\ outbound' = outbound + 1
                /\ pc' = "awaitCompletion"
                /\ UNCHANGED response
    /\ UNCHANGED <<request, query, llmAnalysis, chatCompletion, earlier,
                   classifierVars, gazetteerVars, configVars, orchestratorVars>>
    /\ UNCHANGED pageVars

\* test-llm: the second fetch settles and the handler answers.
TestLLMCompletionSettled ==
    /\ pc = "awaitCompletion"
    /\ \E fetched \in Fetches :
           response' = IF fetched.settled = "rejected"
                       THEN Sent(200, [connected |-> FALSE])
                       ELSE Sent(200, [connected |-> fetched.ok])
    /\ pc' = "responded"
    /\ UNCHANGED <<request, classifierVars, gazetteerVars, configVars,
                   interpreterVars, orchestratorVars>>
    /\ UNCHANGED pageVars

NextHandlers ==
    \/ MethodNotAllowed
    \/ AnalyzeBodyThrows
    \/ AnalyzeQueryRequired
    \/ AnalyzeInvokesSimulated
    \/ AnalyzeInvokesRequest
    \/ AnalyzeQuerySettled
    \/ AnalyzeQueryCompletes
    \/ AnalyzeResponds
    \/ StatusProbeOffline
    \/ StatusProbeRequest
    \/ StatusProbeSettled
    \/ TestLLMBodyThrows
    \/ TestLLMEndpointThrows
    \/ TestLLMListModels
    \/ TestLLMListSettled
    \/ TestLLMCompletionSettled

SpecHandlers == InitHandlers /\ [][NextHandlers]_vars

----------------------------------------------------------------------------
(* The page (src/pages/index.tsx): the user's events, handleAnalyze,        *)
(* handleReset and checkLLMStatus                                           *)

MaxRequests == 2

\* The texts the user types or picks from the examples.
PageQueries ==
    { << >>, <<" "," ">>, <<"O","p","e","n"," ","a"," ","s","u","p","e","r","m","a","r","k","e","t">>,
      <<"B","e","s","t"," ","p","h","a","r","m","a","c","y"," ","l","o","c","a","t","i","o","n"," ","i","n"," ","r","e","s","i","d","e","n","t","i","a","l"," ","D","e","l","h","i">> }

PageQueryTypes == { <<"l","o","c","a","t","i","o","n">>, <<"m","a","r","k","e","t">> }

\* The draws of Math.random() during the analyses the page asks for.
PageStream == [start |-> 0, step |-> 1]

\* What an awaited fetch('/api/analyze', ...) followed by res.json() can come
\* to for the body {query, queryType}: rejected (network error, a body that
\* is not JSON), the AnalysisResult the handler sends with 200, or the
\* error envelope it sends with 500.
AnalyzeFetches(q, qType) ==
    { [settled |-> "rejected"],
      [settled |-> "fulfilled",
       json |-> analyzeResponse(
                    [settled |-> "fulfilled",
                     value |-> analyzeQueryAfterAwait(q, qType, simulateAnalysis(q),
                                                      PageStream).value]).json],
      [settled |-> "fulfilled",
       json |-> analyzeResponse([settled |-> "rejected"]).json] }

\* What the awaited fetch('/api/status') followed by res.json() can come
\* to: rejected, or the body the status handler sends.
StatusFetches ==
    { [settled |-> "rejected"] }
        \cup { [settled |-> "fulfilled", json |-> statusResponse(Returns(b)).json] :
                   b \in BOOLEAN }

\* data.visualization and data.connected of a parsed body: undefined, which
\* is falsy, for a body without the property.
hasVisualization(data) == "visualization" \in DOMAIN data
connectedOf(data) == IF "connected" \in DOMAIN data THEN data.connected ELSE FALSE

\* disabled={isLoading || !query.trim()}
analyzeDisabled(p) == p.isLoading \/ trim(p.query) = << >>

\* handleAnalyze from its await on: setResult(data), the map when the data
\* has a visualization, nothing in the catch block, and setIsLoading(false)
\* in the finally block.
afterAnalyzeFetch(p, fetched) ==
    IF fetched.settled = "rejected" THEN [p EXCEPT !.isLoading = FALSE]
    ELSE IF hasVisualization(fetched.json)
    THEN [p EXCEPT !.result = fetched.json,
                   !.mapCenter = fetched.json.visualization.center,
                   !.mapZoom = fetched.json.visualization.zoom,
                   !.isLoading = FALSE]
    ELSE [p EXCEPT !.result = fetched.json, !.isLoading = FALSE]

\* checkLLMStatus from its await on.
afterStatusFetch(fetched) ==
    IF fetched.settled = "rejected" THEN "demo"
    ELSE IF connectedOf(fetched.json) THEN "connected" ELSE "demo"

\* handleReset
handleReset(p) ==
    [p EXCEPT !.query = << >>, !.result = Null,
              !.mapCenter = HomeCenter, !.mapZoom = HomeZoom]

InitPage ==
    /\ pc = "mounted"
    /\ PageIdle
    /\ ConfigIdle /\ InterpreterIdle /\ OrchestratorIdle
    /\ ClassifierIdle /\ GazetteerIdle /\ HandlerIdle

\* onChange of the textarea, or a click on an example: setQuery(text).
SetQuery ==
    /\ \E q \in PageQueries : page' = [page EXCEPT !.query = q]
    /\ UNCHANGED <<pc, inFlight, statusFetch, history, classifierVars,
                   gazetteerVars, configVars, interpreterVars, orchestratorVars,
                   handlerVars>>

\* A click on a query type: setQueryType(type.id).
SetQueryType ==
    /\ \E qType \in PageQueryTypes : page' = [page EXCEPT !.queryType = qType]
    /\ UNCHANGED <<pc, inFlight, statusFetch, history, classifierVars,
                   gazetteerVars, configVars, interpreterVars, orchestratorVars,
                   handlerVars>>

\* handleAnalyze up to its await: it returns at once for a blank query;
\* otherwise setIsLoading(true) and the request is sent.
HandleAnalyze ==
    /\ trim(page.query) /= << >>
    /\ history.submitted < MaxRequests
    /\ page' = [page EXCEPT !.isLoading = TRUE]
    /\ inFlight' = inFlight \cup
           {[id |-> history.submitted + 1, query |-> page.query,
             queryType |-> page.queryType]}
    /\ history' = [submitted |-> history.submitted + 1,
                   lastQuery |-> page.query, reset |-> FALSE]
    /\ UNCHANGED <<pc, statusFetch, classifierVars, gazetteerVars, configVars,
                   interpreterVars, orchestratorVars, handlerVars>>

\* A click on the Analyze button, which is disabled while isLoading or for
\* a blank query.
ClickAnalyze ==
    /\ ~analyzeDisabled(page)
    /\ HandleAnalyze

\* handleKeyPress for Enter without Shift: handleAnalyze().
PressEnter ==
    /\ HandleAnalyze

\* A fetch of /api/analyze settles and its handleAnalyze runs to the end.
AnalyzeFetchSettled ==
    /\ \E sent \in inFlight :
           /\ \E fetched \in AnalyzeFetches(sent.query, sent.queryType) :
                  page' = afterAnalyzeFetch(page, fetched)
           /\ inFlight' = inFlight \ {sent}
    /\ UNCHANGED <<pc, statusFetch, history, classifierVars, gazetteerVars,
                   configVars, interpreterVars, orchestratorVars, handlerVars>>

\* A click on the home button: handleReset.
HandleReset ==
    /\ page' = handleReset(page)
    /\ history' = [history EXCEPT !.reset = TRUE]
    /\ UNCHANGED <<pc, inFlight, statusFetch, classifierVars, gazetteerVars,
                   configVars, interpreterVars, orchestratorVars, handlerVars>>

\* The fetch of /api/status settles and checkLLMStatus runs to the end.
CheckLLMStatusSettled ==
    /\ statusFetch = NotSettled
    /\ \E fetched \in StatusFetches :
           /\ statusFetch' = fetched
           /\ page' = [page EXCEPT !.llmStatus = afterStatusFetch(fetched)]
    /\ UNCHANGED <<pc, inFlight, history, classifierVars, gazetteerVars,
                   configVars, interpreterVars, orchestratorVars, handlerVars>>

NextPage ==
    \/ SetQuery
    \/ SetQueryType
    \/ ClickAnalyze
    \/ PressEnter
    \/ AnalyzeFetchSettled
    \/ HandleReset
    \/ CheckLLMStatusSettled

SpecPage == InitPage /\ [][NextPage]_vars

----------------------------------------------------------------------------
(* Properties of the classifier, under SpecClassify *)

Returned == pc = "returned"

\* The keywords of category i that occur in nm when letter case is ignored.
KeywordsIgnoringCase(i, nm) ==
    LET nmLower == toLowerCase(nm)
    IN  {j \in 1..Len(POI_CATEGORIES[i].keywords) :
            includes(nmLower, toLowerCase(POI_CATEGORIES[i].keywords[j]))}

\* nm holds no keyword of any category, whatever the letter case.
KeywordFree(nm) ==
    \A i \in 1..Len(POI_CATEGORIES) : KeywordsIgnoringCase(i, nm) = {}

\* C1: classifying a name that is exactly a keyword of category c, with no
\* context, yields c with a confidence of at least 0.35 and at most 0.95.
C1_KeywordYieldsItsCategory ==
    (Returned /\ context = undefined) =>
        \A i \in 1..Len(POI_CATEGORIES) :
            \A j \in 1..Len(POI_CATEGORIES[i].keywords) :
                name = POI_CATEGORIES[i].keywords[j] =>
                    /\ bestMatch.category = POI_CATEGORIES[i].id
                    /\ bestMatch.confidence >= 35 * (Scale \div 100)
                    /\ bestMatch.confidence <= 95 * (Scale \div 100)

\* C2: with no context, an empty name and a name that holds no keyword are
\* classified "unknown" with confidence exactly 0.3.
C2_KeywordFreeIsUnknown ==
    (Returned /\ context = undefined /\ KeywordFree(name)) =>
        /\ bestMatch.category = "unknown"
        /\ bestMatch.confidence = 30 * (Scale \div 100)

C2_Witness ==
    /\ Returned /\ context = undefined
    /\ name = <<"S","r","i"," ","D","e","v","i">>
    /\ bestMatch.category = "unknown"

\* The capped score of every category for the call in the state: 0.35 for
\* each keyword and 0.15 for each contextual rule the code matches, at most
\* 0.95.
RECURSIVE CappedScoresUpTo(_, _, _)
CappedScoresUpTo(n, nameLower, contextLower) ==
    IF n = 0 THEN << >>
    ELSE Append(CappedScoresUpTo(n - 1, nameLower, contextLower),
                Min(35 * (Scale \div 100)
                        * keywordMatches(POI_CATEGORIES[n], nameLower)
                      + 15 * (Scale \div 100)
                        * ruleMatches(POI_CATEGORIES[n], context, contextLower),
                    95 * (Scale \div 100)))

CappedScores ==
    CappedScoresUpTo(Len(POI_CATEGORIES), toLowerCase(name),
                     IF context = undefined THEN << >> ELSE toLowerCase(context))

\* The earliest declared category among those of the greatest capped score.
FirstGreatest(caps) ==
    CHOOSE i \in DOMAIN caps :
        /\ \A k \in DOMAIN caps : caps[k] <= caps[i]
        /\ \A k \in 1..(i - 1) : caps[k] < caps[i]

\* C3 as stated: for every name and context the result is the earliest
\* category of the greatest capped score, with that capped score.
C3_AlwaysGreatestCategory ==
    Returned =>
        LET caps == CappedScores
            first == FirstGreatest(caps)
        IN  /\ bestMatch.category = POI_CATEGORIES[first].id
            /\ bestMatch.confidence = caps[first]

\* C3 amended: when the greatest capped score exceeds 0.3 the result is the
\* earliest declared category of that score, with that score as confidence;
\* otherwise the result is "unknown" with confidence 0.3.
C3_GreatestCategoryAboveFloor ==
    Returned =>
        LET caps == CappedScores
            first == FirstGreatest(caps)
        IN  IF caps[first] > 30 * (Scale \div 100)
            THEN /\ bestMatch.category = POI_CATEGORIES[first].id
                 /\ bestMatch.confidence = caps[first]
            ELSE /\ bestMatch.category = "unknown"
                 /\ bestMatch.confidence = 30 * (Scale \div 100)

\* "office" is a keyword of government and of technology: a tie.
C3_Witness ==
    /\ Returned
    /\ name = <<"o","f","f","i","c","e">>
    /\ CappedScores[9] = CappedScores[10]
    /\ bestMatch.category = "government"

\* C4: every keyword matches whatever the letter case of the name, and the
\* result does not depend on the letter case of the name.
C4_CaseInsensitiveKeywords ==
    Returned =>
        /\ \A i \in 1..Len(POI_CATEGORIES) :
               keywordMatches(POI_CATEGORIES[i], toLowerCase(name))
                   = Cardinality(KeywordsIgnoringCase(i, name))
        /\ bestMatch = classifyPOI(toUpperCase(name), context)
        /\ bestMatch = classifyPOI(toLowerCase(name), context)

----------------------------------------------------------------------------
(* Properties of the gazetteer, under SpecGazetteer *)

Bangalore == Coords(129716, 775946)

\* C9: a name that, lower-cased and with its whitespace removed, is a key of
\* the table gets that key's coordinates, and every other name gets the
\* coordinates of Bangalore.
C9_KnownCityOrBangalore ==
    Returned =>
        LET key == removeWhitespace(toLowerCase(location))
        IN  IF \E i \in 1..Len(CITY_COORDINATES) : CITY_COORDINATES[i].key = key
            THEN \E i \in 1..Len(CITY_COORDINATES) :
                     /\ CITY_COORDINATES[i].key = key
                     /\ coordinates = CITY_COORDINATES[i].value
            ELSE coordinates = Bangalore

----------------------------------------------------------------------------
(* Properties of the interpreter, under SpecInterpret *)

\* The LLM enable flag is off, or the provider is "simulate".
LLMModeOff == USE_LLM = FALSE \/ LLM_PROVIDER = "simulate"

\* C10: with LLM mode disabled, two calls with the same query resolve to
\* equal interpretations, and the example query resolves to location
\* Bangalore, business type Chai Stall and a contextual-factors list that
\* holds "Proximity to IT/Tech Parks".
C10_HeuristicDeterministic ==
    (pc = "resolved" /\ LLMModeOff) =>
        /\ (earlier.made /\ earlier.query = query) => earlier.analysis = llmAnalysis
        /\ query = ExampleQuery =>
               /\ llmAnalysis.location = Str(<<"B","a","n","g","a","l","o","r","e">>)
               /\ llmAnalysis.businessType = Str(<<"C","h","a","i"," ","S","t","a","l","l">>)
               /\ \E i \in 1..Len(llmAnalysis.contextualFactors.v) :
                      llmAnalysis.contextualFactors.v[i]
                          = Str(<<"P","r","o","x","i","m","i","t","y"," ","t","o"," ","I","T","/","T","e","c","h"," ","P","a","r","k","s">>)

C10_Witness ==
    /\ pc = "resolved" /\ LLMModeOff
    /\ earlier.made /\ earlier.query = ExampleQuery /\ query = ExampleQuery
    /\ llmAnalysis.location = Str(<<"B","a","n","g","a","l","o","r","e">>)
    /\ outbound = 0

----------------------------------------------------------------------------
(* Properties of the orchestrator, under Spec *)

\* analyzeQuery returned an AnalysisResult.
Fulfilled == pc = "done" /\ result.settled = "fulfilled"

\* C5: every AnalysisResult has exactly 5 suggested locations, none of them
\* verified.
C5_FiveUnverifiedSuggestions ==
    Fulfilled =>
        LET suggested == result.value.aiReasoning.suggestedLocations
        IN  /\ Len(suggested) = 5
            /\ \A i \in 1..Len(suggested) : suggested[i].verified = FALSE

C5_Witness ==
    /\ Fulfilled
    /\ query = ExampleQuery /\ queryType = <<"m","a","r","k","e","t">>
    /\ Len(result.value.aiReasoning.suggestedLocations) = 5

\* C6: every AnalysisResult has at most as many verified POIs as suggested
\* locations, and every verified POI is verified.
C6_VerifiedWithinSuggested ==
    Fulfilled =>
        LET verified == result.value.groundTruth.verifiedPOIs
        IN  /\ Len(verified) <= Len(result.value.aiReasoning.suggestedLocations)
            /\ \A i \in 1..Len(verified) : verified[i].verified = TRUE

C6_Witness ==
    /\ Fulfilled
    /\ Len(result.value.groundTruth.verifiedPOIs) = 3
    /\ result.value.groundTruth.verifiedPOIs[3].verified = TRUE

\* C7: the accuracy of every AnalysisResult is an integer from 0 to 70.
C7_AccuracyIntegerUpTo70 ==
    Fulfilled =>
        /\ result.value.groundTruth.accuracy % Scale = 0
        /\ result.value.groundTruth.accuracy >= 0
        /\ result.value.groundTruth.accuracy <= 70 * Scale

C7_Witness ==
    /\ Fulfilled
    /\ Len(result.value.groundTruth.verifiedPOIs) > 0
    /\ result.value.groundTruth.accuracy = 60 * Scale

----------------------------------------------------------------------------
(* Properties of the orchestrator and the classifier, under SpecCalls *)

KnownCategories ==
    CategoryIds \cup {"unknown", "ai_suggested", "ground_truth_verified"}

POIWellFormed(poi) ==
    /\ poi.confidence >= 0 /\ poi.confidence <= Scale
    /\ poi.category \in KnownCategories

\* C8: every POI of an AnalysisResult has a confidence in [0,1] and a
\* category that is a taxonomy id, "unknown", "ai_suggested" or
\* "ground_truth_verified"; every result of classifyPOI has a confidence in
\* [0,1] and a category that is a taxonomy id or "unknown".
C8_ConfidenceAndCategoryInRange ==
    /\ Fulfilled =>
           LET suggested == result.value.aiReasoning.suggestedLocations
               verified == result.value.groundTruth.verifiedPOIs
           IN  /\ \A i \in 1..Len(suggested) : POIWellFormed(suggested[i])
               /\ \A i \in 1..Len(verified) : POIWellFormed(verified[i])
    /\ Returned =>
           /\ bestMatch.confidence >= 0 /\ bestMatch.confidence <= Scale
           /\ bestMatch.category \in CategoryIds \cup {"unknown"}

C8_Witness ==
    /\ Returned
    /\ name = <<"p","o","s","t"," ","o","f","f","i","c","e"," ","G","O","V","E","R","N","M","E","N","T">>
    /\ bestMatch.category = "government"
    /\ bestMatch.confidence = 95 * (Scale \div 100)

----------------------------------------------------------------------------
(* Properties of the interpreter's fallback, under SpecInterpret *)

\* Contents that are not JSON: prose, and a fence with nothing in it.
UnparsableContents ==
    { <<"S","o","r","r","y",","," ","I"," ","c","a","n","n","o","t"," ","h","e","l","p"," ","w","i","t","h"," ","t","h","a","t",".">>, <<"bq","bq","bq">> }

\* The chat-completion call failed: it was rejected (network error, timeout),
\* its content was empty, or its content does not parse as JSON.
CompletionFailed ==
    \/ chatCompletion.settled = "rejected"
    \/ /\ chatCompletion.settled = "fulfilled"
       /\ \/ chatCompletion.content \in {Undefined, Null, Str(<< >>)}
          \/ /\ chatCompletion.content.t = "string"
             /\ chatCompletion.content.v \in UnparsableContents

\* C14: in LLM mode, when the chat-completion call fails (network error,
\* timeout, empty content, content that is not JSON), analyzeSpatialQuery
\* resolves to the interpretation the heuristic gives for the same query.
C14_FailureFallsBackToHeuristic ==
    (pc = "resolved" /\ CompletionFailed) =>
        llmAnalysis = simulateAnalysis(query)

C14_Witness ==
    /\ pc = "resolved"
    /\ chatCompletion = Responded(Str(<<"S","o","r","r","y",","," ","I"," ","c","a","n","n","o","t"," ","h","e","l","p"," ","w","i","t","h"," ","t","h","a","t",".">>))
    /\ query = ExampleQuery
    /\ llmAnalysis.businessType = Str(<<"C","h","a","i"," ","S","t","a","l","l">>)

----------------------------------------------------------------------------
(* Properties of the suggestion names, under Spec *)

NamedQueryTypes == { <<"l","o","c","a","t","i","o","n">>, <<"m","a","r","k","e","t">>, <<"c","o","m","p","e","t","i","t","o","r">>, <<"o","p","t","i","m","i","z","e">> }

\* The name list the claim gives a queryType: its own list when it is one of
\* the four, the "location" list otherwise.
ListedNames(businessType, qType) ==
    LET table == locationNames(businessType)
        key == IF qType \in NamedQueryTypes THEN qType ELSE <<"l","o","c","a","t","i","o","n">>
        entry == CHOOSE i \in 1..Len(table) : table[i].key = key
    IN  table[entry].value.names

\* C20: the 5 suggestions are named from the list of the given queryType
\* when it is location, market, competitor or optimize, and from the
\* "location" list for every other queryType, so every name is a string.
C20_NamesFromQueryTypeList ==
    Fulfilled =>
        LET suggested == result.value.aiReasoning.suggestedLocations
            listed == ListedNames(llmAnalysis.businessType, queryType)
        IN  \A i \in 1..Len(suggested) :
                /\ suggested[i].name.t = "string"
                /\ suggested[i].name = Str(listed[i])

----------------------------------------------------------------------------
(* Properties of the HTTP handlers, under SpecHandlers *)

\* The handler of the given route has answered (or thrown).
Answered(route) == pc = "responded" /\ request.route = route

\* analyzeQuery was not called and nothing was sent out.
NotInvoked ==
    /\ query = << >> /\ llmAnalysis = Undefined
    /\ chatCompletion = NotSettled
    /\ result = [settled |-> "pending"]
    /\ outbound = 0

\* The body can be read and holds no query, or a query that is not a string.
NoStringQuery ==
    /\ request.body.t \notin {"null", "undefined"}
    /\ QueryOf(request.body).t /= "string"

MalformedBody ==
    \/ request.body.t /= "object"
    \/ /\ request.body.t = "object"
       /\ request.body.query = Undefined

\* C12: a request to the analyze handler whose body is missing or malformed
\* is answered with a 4xx status, never with 500.
C12_MalformedBodyIs4xx ==
    (Answered("analyze") /\ MalformedBody) =>
        response.status \in 400..499

\* A POST to analyze with a query that is a string, the LLM disabled.
StringQueryLLMOff ==
    /\ Answered("analyze")
    /\ request.method = "POST"
    /\ LLM_PROVIDER = "simulate" \/ ~USE_LLM
    /\ request.body.t = "object"
    /\ request.body.query.t = "string"

\* C13 as stated: with the LLM disabled, a POST to analyze whose query is a
\* string, any string, is answered 200 with an AnalysisResult.
C13_AnyStringQueryIs200 ==
    StringQueryLLMOff =>
        /\ response.status = 200
        /\ result.settled = "fulfilled"
        /\ response.json = result.value

\* C13: with the LLM disabled, a POST to analyze whose query is a string
\* that is not empty is answered 200 with the AnalysisResult; the empty
\* string is answered 400.
C13_NonEmptyStringQueryIs200 ==
    StringQueryLLMOff =>
        IF request.body.query.v = << >>
        THEN response.status = 400
        ELSE /\ response.status = 200
             /\ result.settled = "fulfilled"
             /\ response.json = result.value

C13_Witness ==
    /\ StringQueryLLMOff
    /\ request.body.query = Str(ExampleQuery)
    /\ request.body.queryType = Str(<<"c","o","n","s","t","r","u","c","t","o","r">>)
    /\ response.status = 200
    /\ Len(response.json.aiReasoning.suggestedLocations) = 5

\* C15: in LLM mode, whatever content the chat-completion endpoint returns,
\* the orchestrator gets an interpretation with all five fields of the
\* right type, analyzeQuery does not throw and the analyze handler does not
\* answer 500.
C15_UpstreamNeverCauses500 ==
    (Answered("analyze") /\ chatCompletion.settled = "fulfilled") =>
        /\ llmAnalysis.t = "object"
        /\ llmAnalysis.location.t = "string"
        /\ llmAnalysis.businessType.t = "string"
        /\ llmAnalysis.contextualFactors.t = "array"
        /\ llmAnalysis.marketInsights.t = "string"
        /\ llmAnalysis.keyAssumptions.t = "array"
        /\ result.settled = "fulfilled"
        /\ response.status /= 500

\* C16: the status handler answers every request with 200; mode is "llm"
\* exactly when llmConnected is true and "simulation" exactly when it is
\* false; a probe that throws gives llmConnected false and "simulation".
C16_StatusAlways200 ==
    /\ Answered("status") =>
           /\ response.status = 200 /\ ~response.threw
           /\ response.json.llmConnected \in BOOLEAN
           /\ response.json.mode = "llm" <=> response.json.llmConnected
           /\ response.json.mode = "simulation" <=> ~response.json.llmConnected
    /\ statusResponse(Throws) =
           Sent(200, [llmConnected |-> FALSE, mode |-> "simulation"])

C16_Witness ==
    /\ Answered("status")
    /\ chatCompletion.settled = "fulfilled"
    /\ response.json = [llmConnected |-> TRUE, mode |-> "llm"]

\* C17: the test-llm handler never throws: a request that is not a POST
\* gets 405, and every POST, whatever its body and whatever the outbound
\* calls do, gets 200 with connected a boolean.
C17_TestLLMNeverThrows ==
    Answered("test-llm") =>
        /\ ~response.threw
        /\ request.method /= "POST" => response.status = 405
        /\ request.method = "POST" =>
               /\ response.status = 200
               /\ response.json.connected \in BOOLEAN

\* The LLM enable flag is off, the provider is "simulate", or the provider
\* is neither "ollama" nor "openai".
Offline ==
    \/ ~USE_LLM
    \/ LLM_PROVIDER = "simulate"
    \/ LLM_PROVIDER \notin {"ollama", "openai"}

\* C18: when the flag is off, the provider is "simulate" or the provider is
\* neither "ollama" nor "openai", testLLMConnection returns false and
\* analyzeSpatialQuery returns the heuristic interpretation, both without a
\* network call.
C18_OfflineMakesNoCall ==
    Offline =>
        /\ Answered("status") =>
               response.json.llmConnected = FALSE /\ outbound = 0
        /\ (request.route = "analyze" /\ pc \in {"resolved", "done", "responded"}) =>
               /\ outbound = 0
               /\ result.settled /= "pending" => llmAnalysis = simulateAnalysis(query)
               /\ pc = "resolved" => llmAnalysis = simulateAnalysis(query)

C18_Witness ==
    /\ USE_LLM /\ LLM_PROVIDER = "other"
    /\ request.route = "analyze" /\ pc = "resolved"
    /\ query = ExampleQuery
    /\ llmAnalysis.location = Str(<<"B","a","n","g","a","l","o","r","e">>)
    /\ outbound = 0

\* C19: every invocation of the analyze, status and test-llm handlers issues
\* at most one outbound network request.
C19_AtMostOneOutbound ==
    request.route \in {"analyze", "status", "test-llm"} => outbound <= 1

----------------------------------------------------------------------------
(* Properties of the classifier's floor, under SpecClassifyContext *)

\* The number of contextual rules of category i that occur in the context,
\* letter case ignored; none when the context is absent or empty.
RulesMatched(i) ==
    IF context = undefined \/ context = << >> THEN 0
    ELSE Cardinality({j \in 1..Len(POI_CATEGORIES[i].contextualRules) :
             includes(toLowerCase(context),
                      toLowerCase(POI_CATEGORIES[i].contextualRules[j]))})

IsUnknown ==
    bestMatch.category = "unknown" /\ bestMatch.confidence = 30 * (Scale \div 100)

NoScoreAboveFloor ==
    \A i \in DOMAIN CappedScores : CappedScores[i] <= 30 * (Scale \div 100)

\* C21 as stated: the result is "unknown" / 0.3 exactly when no capped score
\* exceeds 0.3; a keyword-free name whose context matches at most two rules
\* of any category yields "unknown", and one whose context matches three
\* rules of a category yields that category.
C21_ThreeRulesYieldThatCategory ==
    (Returned /\ KeywordFree(name)) =>
        /\ IsUnknown <=> NoScoreAboveFloor
        /\ (\A i \in 1..Len(POI_CATEGORIES) : RulesMatched(i) <= 2) => IsUnknown
        /\ \A i \in 1..Len(POI_CATEGORIES) :
               RulesMatched(i) = 3 =>
                   /\ bestMatch.category = POI_CATEGORIES[i].id
                   /\ bestMatch.confidence = 45 * (Scale \div 100)

\* C21 amended: the result is "unknown" / 0.3 exactly when no capped score
\* exceeds 0.3; a keyword-free name whose context matches at most two rules
\* of any category yields "unknown", and one whose context matches three
\* rules of some category yields, with confidence 0.45, the earliest
\* declared category of which three rules match.
C21_ThreeRulesYieldEarliestCategory ==
    (Returned /\ KeywordFree(name)) =>
        LET full == {i \in 1..Len(POI_CATEGORIES) : RulesMatched(i) = 3}
        IN  /\ IsUnknown <=> NoScoreAboveFloor
            /\ full = {} => IsUnknown
            /\ full /= {} =>
                   /\ \E i \in full :
                          /\ \A k \in full : i <= k
                          /\ bestMatch.category = POI_CATEGORIES[i].id
                   /\ bestMatch.confidence = 45 * (Scale \div 100)

\* Three rules of retail and three of entertainment match: retail, declared
\* earlier, is the result.
C21_Witness ==
    /\ Returned /\ name = <<"S","r","i"," ","D","e","v","i">>
    /\ RulesMatched(2) = 3 /\ RulesMatched(8) = 3 /\ RulesMatched(1) = 0
    /\ bestMatch = [category |-> "retail", confidence |-> 45 * (Scale \div 100)]

----------------------------------------------------------------------------
(* Properties of the heuristic interpreter, under SpecInterpret *)

\* analyzeSpatialQuery resolved in heuristic mode.
HeuristicResolved == pc = "resolved" /\ LLMModeOff

\* The least element of a set of numbers that is not empty.
Least(S) == CHOOSE i \in S : \A k \in S : i <= k

\* C22: in heuristic mode the location is the first entry of the city list
\* that occurs in the lower-cased query, capitalised, or "Bangalore" when
\* none occurs; the business type is the label of the first keyword of the
\* keyword table that occurs, or "Business" when none occurs.
C22_FirstListedMatchWins ==
    HeuristicResolved =>
        LET queryLower == toLowerCase(query)
            found == {i \in 1..Len(cities) : includes(queryLower, cities[i])}
            kinds == {i \in 1..Len(businessTypes) :
                         includes(queryLower, businessTypes[i][1])}
        IN  /\ llmAnalysis.location =
                   Str(IF found = {} THEN <<"B","a","n","g","a","l","o","r","e">>
                       ELSE toUpperCase(SubSeq(cities[Least(found)], 1, 1))
                                \o Tail(cities[Least(found)]))
            /\ llmAnalysis.businessType =
                   Str(IF kinds = {} THEN <<"B","u","s","i","n","e","s","s">>
                       ELSE businessTypes[Least(kinds)][2])

\* "pune" occurs before "mumbai" in the query and after it in the list;
\* "gym" is the only keyword.
C22_Witness ==
    /\ HeuristicResolved
    /\ query = <<"U","n","d","e","r","s","e","r","v","e","d"," ","g","y","m"," ","m","a","r","k","e","t"," ","n","e","a","r"," ","m","e","t","r","o"," ","s","t","a","t","i","o","n","s"," ","i","n"," ","P","u","n","e"," ","o","r"," ","M","u","m","b","a","i">>
    /\ llmAnalysis.location = Str(<<"M","u","m","b","a","i">>)
    /\ llmAnalysis.businessType = Str(<<"F","i","t","n","e","s","s"," ","C","e","n","t","e","r">>)

\* The trigger groups in their fixed order, each with its phrases and tag.
TriggerGroups == <<
    [phrases |-> { <<"i","t"," ","p","a","r","k">>, <<"t","e","c","h"," ","p","a","r","k">> }, tag |-> <<"P","r","o","x","i","m","i","t","y"," ","t","o"," ","I","T","/","T","e","c","h"," ","P","a","r","k","s">>],
    [phrases |-> { <<"r","e","s","i","d","e","n","t","i","a","l">> }, tag |-> <<"R","e","s","i","d","e","n","t","i","a","l"," ","A","r","e","a"," ","F","o","c","u","s">>],
    [phrases |-> { <<"u","n","d","e","r","s","e","r","v","e","d">>, <<"g","a","p">> }, tag |-> <<"M","a","r","k","e","t"," ","G","a","p"," ","A","n","a","l","y","s","i","s"," ","R","e","q","u","i","r","e","d">>],
    [phrases |-> { <<"c","o","m","m","e","r","c","i","a","l">> }, tag |-> <<"C","o","m","m","e","r","c","i","a","l"," ","Z","o","n","e"," ","P","r","i","o","r","i","t","y">>],
    [phrases |-> { <<"m","e","t","r","o">>, <<"t","r","a","n","s","i","t">> }, tag |-> <<"M","e","t","r","o","/","T","r","a","n","s","i","t"," ","A","c","c","e","s","s","i","b","i","l","i","t","y">>] >>

Triggered(n, queryLower) ==
    \E p \in TriggerGroups[n].phrases : includes(queryLower, p)

\* The tags of the first n trigger groups of which a phrase occurs, in order.
RECURSIVE TriggeredTags(_, _)
TriggeredTags(n, queryLower) ==
    IF n = 0 THEN << >>
    ELSE TriggeredTags(n - 1, queryLower)
             \o (IF Triggered(n, queryLower)
                 THEN << Str(TriggerGroups[n].tag) >> ELSE << >>)

GenericTags ==
    << Str(<<"G","e","n","e","r","a","l"," ","C","o","m","m","e","r","c","i","a","l"," ","V","i","a","b","i","l","i","t","y">>), Str(<<"F","o","o","t"," ","T","r","a","f","f","i","c"," ","P","o","t","e","n","t","i","a","l">>) >>

\* C23: in heuristic mode contextualFactors is never empty; it holds, in the
\* fixed order, one tag for each trigger group of which a phrase occurs in
\* the lower-cased query, and it is the two generic tags exactly when no
\* trigger phrase occurs.
C23_FactorsFollowTriggers ==
    HeuristicResolved =>
        LET queryLower == toLowerCase(query)
            tags == TriggeredTags(Len(TriggerGroups), queryLower)
            factors == llmAnalysis.contextualFactors
        IN  /\ factors.t = "array"
            /\ Len(factors.v) > 0
            /\ tags /= << >> => factors.v = tags
            /\ factors.v = GenericTags <=> tags = << >>

C23_Witness ==
    /\ HeuristicResolved
    /\ query = <<"U","n","d","e","r","s","e","r","v","e","d"," ","g","y","m"," ","m","a","r","k","e","t"," ","n","e","a","r"," ","m","e","t","r","o"," ","s","t","a","t","i","o","n","s"," ","i","n"," ","P","u","n","e"," ","o","r"," ","M","u","m","b","a","i">>
    /\ llmAnalysis.contextualFactors.v =
           << Str(<<"M","a","r","k","e","t"," ","G","a","p"," ","A","n","a","l","y","s","i","s"," ","R","e","q","u","i","r","e","d">>),
              Str(<<"M","e","t","r","o","/","T","r","a","n","s","i","t"," ","A","c","c","e","s","s","i","b","i","l","i","t","y">>) >>

----------------------------------------------------------------------------
(* Properties of one heuristic-mode result, under Spec *)

HeuristicResult == Fulfilled /\ LLMModeOff

MentionsITPark(q) ==
    includes(toLowerCase(q), <<"i","t"," ","p","a","r","k">>) \/ includes(toLowerCase(q), <<"t","e","c","h"," ","p","a","r","k">>)

ITParkCorrection ==
    <<"A","I"," ","a","s","s","u","m","e","d"," ","s","t","a","n","d","a","r","d"," ","c","o","m","m","e","r","c","i","a","l"," ","h","o","u","r","s",";"," ","a","c","t","u","a","l"," ","I","T"," ","p","a","r","k"," ","p","e","a","k"," ","t","i","m","e","s"," ","a","r","e"," ","8","-","1","0"," ","A","M"," ","a","n","d"," ","6","-","8"," ","P","M">>

ITParkAssumption ==
    Str(<<"H","i","g","h"," ","d","e","m","a","n","d"," ","a","r","e","a","s"," ","a","r","e"," ","c","o","n","c","e","n","t","r","a","t","e","d"," ","n","e","a","r"," ","m","a","j","o","r"," ","I","T"," ","p","a","r","k","s"," ","a","n","d"," ","t","e","c","h"," ","c","o","r","r","i","d","o","r","s">>)

\* C24: in a heuristic-mode result the suggestions carry the tag "Tech Zone"
\* and the IT-park corrections are emitted if and only if the key
\* assumptions use their IT-park wording, that is if and only if the query
\* contains "it park" or "tech park"; otherwise the suggestions carry
\* "Commercial Zone".
C24_TechBranchConsistent ==
    HeuristicResult =>
        LET suggested == result.value.aiReasoning.suggestedLocations
            assumptions == result.value.aiReasoning.assumptions
            corrections == result.value.groundTruth.corrections
        IN  /\ assumptions.v[1] = ITParkAssumption <=> MentionsITPark(query)
            /\ \A i \in 1..Len(suggested) :
                   suggested[i].attributes.tags[2] =
                       IF MentionsITPark(query) THEN <<"T","e","c","h"," ","Z","o","n","e">>
                       ELSE <<"C","o","m","m","e","r","c","i","a","l"," ","Z","o","n","e">>
            /\ corrections[1] = ITParkCorrection <=> MentionsITPark(query)


\* C25: for every validation rate that can be drawn, every AnalysisResult has
\* exactly 3 verified POIs and accuracy exactly 60; the cap at 70 does not
\* change the value, no verified POI has a "Verified Location N" name and
\* the recommendation never names "No optimal location identified".
C25_ThreeVerifiedAccuracy60 ==
    Fulfilled =>
        LET verified == result.value.groundTruth.verifiedPOIs
            suggested == result.value.aiReasoning.suggestedLocations
        IN  /\ Len(verified) = 3
            /\ result.value.groundTruth.accuracy = 60 * Scale
            /\ accuracy(Len(verified), Len(suggested)) =
                   result.value.groundTruth.accuracy
            /\ \A i \in 1..Len(verified) :
                   ~startsWith(verified[i].name.v, <<"V","e","r","i","f","i","e","d"," ","L","o","c","a","t","i","o","n"," ">>)
            /\ result.value.recommendation.topLocation /=
                   Str(<<"N","o"," ","o","p","t","i","m","a","l"," ","l","o","c","a","t","i","o","n"," ","i","d","e","n","t","i","f","i","e","d">>)
            /\ result.value.recommendation.topLocation = verified[1].name

C25_Witness ==
    /\ Fulfilled
    /\ query = <<"B","e","s","t"," ","p","h","a","r","m","a","c","y"," ","l","o","c","a","t","i","o","n"," ","i","n"," ","r","e","s","i","d","e","n","t","i","a","l"," ","D","e","l","h","i">>
    /\ Len(result.value.groundTruth.verifiedPOIs) = 3
    /\ result.value.groundTruth.accuracy = 60 * Scale
    /\ result.value.recommendation.topLocation =
           Str(<<"V","e","r","i","f","i","e","d",":"," ","P","h","a","r","m","a","c","y"," ","-"," ","P","r","i","m","e"," ","L","o","c","a","t","i","o","n">>)

\* The pairs that CITY_COORDINATES holds.
GazetteerPairs == {CITY_COORDINATES[i].value : i \in DOMAIN CITY_COORDINATES}

Near(x, y, d) == x - y <= d /\ y - x <= d

\* C26: in every AnalysisResult zoom is 13 and center is the gazetteer pair
\* of the interpreted location, around which every suggestion and verified
\* POI is jittered; in heuristic mode the location, lower-cased, is a key of
\* CITY_COORDINATES, so that the center is the Bangalore pair only when the
\* location is Bangalore or Bengaluru.
C26_CenterIsGazetteerPair ==
    Fulfilled =>
        LET center == result.value.visualization.center
            pois == result.value.aiReasoning.suggestedLocations
                        \o result.value.groundTruth.verifiedPOIs
            key == toLowerCase(llmAnalysis.location.v)
        IN  /\ result.value.visualization.zoom = 13
            /\ center.kind = "coords"
            /\ center \in GazetteerPairs
            /\ \A i \in 1..Len(pois) :
                   /\ Near(pois[i].lat, center.lat, 200)
                   /\ Near(pois[i].lng, center.lng, 200)
            /\ LLMModeOff =>
                   /\ \E i \in DOMAIN CITY_COORDINATES :
                          /\ CITY_COORDINATES[i].key = key
                          /\ CITY_COORDINATES[i].value = center
                   /\ center = Coords(129716, 775946) =>
                          key \in { <<"b","a","n","g","a","l","o","r","e">>, <<"b","e","n","g","a","l","u","r","u">> }

----------------------------------------------------------------------------
(* The fallback of the test-llm handler, under SpecHandlers *)

\* C27: in the test-llm handler, whenever the model-listing GET fails, by a
\* response that is not ok or by a network error or timeout, exactly one
\* chat-completion POST is attempted afterwards; the POST is not attempted
\* when the GET succeeded.  Once the handler has answered, one outbound
\* request means the GET alone, which then succeeded, and two mean the GET
\* and the POST.
C27_FailedListingIsFollowedByCompletion ==
    (Answered("test-llm") /\ outbound >= 1) =>
        /\ ~response.threw /\ response.status = 200
        /\ outbound <= 2
        /\ outbound = 1 => response.json.connected = TRUE

----------------------------------------------------------------------------
(* Properties of the page, under SpecPage *)

\* C28: at most one /api/analyze request is in flight at any time, isLoading
\* is true exactly while a request is in flight, and a stored
\* AnalysisResult is the response to the most recently submitted query.
C28_OneAnalyzeInFlight ==
    /\ Cardinality(inFlight) <= 1
    /\ page.isLoading <=> inFlight /= {}
    /\ (page.result /= Null /\ hasVisualization(page.result)) =>
           page.result.query = history.lastQuery

\* C29: after handleReset has run, until a new handleAnalyze starts, result
\* is null and the map is at the home center with zoom 12.
C29_ResetHolds ==
    history.reset =>
        /\ page.result = Null
        /\ page.mapCenter = HomeCenter
        /\ page.mapZoom = 12

\* C30: after checkLLMStatus has completed with a response of the status
\* handler, llmStatus is "connected" if and only if the response reports
\* llmConnected true, and "demo" otherwise.
C30_BadgeFollowsStatus ==
    statusFetch.settled = "fulfilled" =>
        /\ page.llmStatus = "connected" <=> statusFetch.json.llmConnected
        /\ page.llmStatus \in {"connected", "demo"}
        /\ statusFetch.json.mode = "llm" => page.llmStatus = "connected"

=============================================================================
